---- MODULE Spec2Model ----
(***************************************************************************)
(* A model of the aspyx dependency-injection runtime (src/src/aspyx/di).   *)
(*                                                                         *)
(* The process-wide provider registry (class Providers), the per-container *)
(* provider wrappers (EnvironmentInstanceProvider with its Scope), the     *)
(* container (class Environment) and the lifecycle callback engine         *)
(* (CallableProcessor with its LifecycleCallable handlers) are modelled as *)
(* one state machine.  The declared classes of a program are its input:    *)
(* they are chosen in Init, registered one decorator at a time, and then   *)
(* containers are constructed, queried and destroyed.                      *)
(***************************************************************************)
EXTENDS Integers, Sequences, FiniteSets, TLC

VARIABLES
    prog,       \* the program that runs, as its place in Programs
    pc,         \* number of decorators of the program already applied
    provs,      \* every InstanceProvider object handed to Providers.register
    providers,  \* Providers.providers : type -> provider (insertion ordered)
    cache,      \* Providers.cache     : type -> provider or AmbiguousProvider
    resolved,   \* Providers.resolved
    envs,       \* every Environment object under construction or constructed
    eips,       \* every EnvironmentInstanceProvider object (with its scope)
    heap,       \* every object a provider constructed, with its call log
    threads,    \* callers inside SingletonScope.get, one record per thread
    nops,       \* number of get() and destroy() calls made so far
    returned,   \* history: what every get() that returned gave its caller
    last,       \* outcome of the last operation (return value or exception)
    invocation, \* the Invocation of an intercepted call, with its log
    manager,    \* the ExceptionManager, with the handlers one handle() ran
    scheduler   \* the Scheduler, its group semaphores and its worker threads

vars == <<prog, pc, provs, providers, cache, resolved, envs, eips, heap, threads,
          nops, returned, last, invocation, manager, scheduler>>

-----------------------------------------------------------------------------
(* Bounds of the model *)

MaxEnvs == 3        \* containers constructed in one run
MaxOps == 3         \* get() and destroy() calls in one run
MaxDepth == 8       \* nesting of create calls before the recursion is cut
MaxThreads == 2     \* threads calling get() at the same time

-----------------------------------------------------------------------------
(* Python values *)

NoneT == "None"
NoErr == "ok"

(* dict: insertion ordered, a sequence of [k, v]; an update keeps the place *)
DictHas(d, k) == \E i \in 1..Len(d) : d[i].k = k
DictGet(d, k) == d[CHOOSE i \in 1..Len(d) : d[i].k = k].v
DictPut(d, k, v) ==
    IF DictHas(d, k)
    THEN [i \in 1..Len(d) |-> IF d[i].k = k THEN [k |-> k, v |-> v] ELSE d[i]]
    ELSE Append(d, [k |-> k, v |-> v])
DictKeys(d) == [i \in 1..Len(d) |-> d[i].k]

(* str.startswith on module names; a name is the sequence of the pieces     *)
(* its string is made of, so that "a" is a prefix of "a.b" and of "ab"       *)
StartsWith(s, p) == Len(p) <= Len(s) /\ SubSeq(s, 1, Len(p)) = p

Min(a, b) == IF a < b THEN a ELSE b

-----------------------------------------------------------------------------
(* Declared classes: what TypeDescriptor reports about a class *)

Markers == {"on_init", "on_destroy", "inject", "inject_environment", "create"}

(* a method as its MethodDescriptor sees it; makes is the runtime type of   *)
(* the object a create-marked method returns                                 *)
Method(name, marks, params) ==
    [name |-> name, marks |-> marks, params |-> params, ret |-> NoneT, makes |-> NoneT]
CreateMethod(name, ret, makes, eager, singleton) ==
    [name |-> name, marks |-> <<"create">>, params |-> <<>>, ret |-> ret,
     makes |-> makes, eager |-> eager, singleton |-> singleton]
InitMethod(params) == Method("__init__", <<>>, params)

(* a class: bases without object, abstractness, module path, the functions  *)
(* in its own __dict__ in getmembers order (sorted by name), its             *)
(* environment decorator, and what its constructor does beyond storing its   *)
(* arguments                                                                 *)
Class(bases, abstract, module, methods) ==
    [bases |-> bases, abstract |-> abstract, module |-> module, methods |-> methods,
     isEnv |-> FALSE, imports |-> <<>>, processor |-> FALSE, handles |-> NoneT]
EnvClass(module, imports, methods) ==
    [bases |-> <<>>, abstract |-> FALSE, module |-> module, methods |-> methods,
     isEnv |-> TRUE, imports |-> imports, processor |-> FALSE, handles |-> NoneT]

-----------------------------------------------------------------------------
(* The classes of aspyx.di.di itself, registered when the module is loaded *)

DI == <<"aspyx", "di", "di">>
DIEnvironment == "DIEnvironment"

Handler(marker) ==
    [Class(<<"LifecycleCallable">>, FALSE, DI, <<InitMethod(<<"CallableProcessor">>)>>)
        EXCEPT !.handles = marker]

InternalClasses ==
    [t \in {"LifecycleProcessor", "CallableProcessor", "LifecycleCallable",
            "OnInitLifecycleCallable", "OnDestroyLifecycleCallable",
            "EnvironmentAwareLifecycleCallable", "InjectLifecycleCallable",
            DIEnvironment} |->
        CASE t = "LifecycleProcessor" -> Class(<<>>, TRUE, DI, <<>>)
          [] t = "CallableProcessor" ->
                [Class(<<"LifecycleProcessor">>, FALSE, DI, <<InitMethod(<<>>)>>)
                    EXCEPT !.processor = TRUE]
          [] t = "LifecycleCallable" ->
                Class(<<>>, FALSE, DI,
                      <<InitMethod(<<"object", "CallableProcessor", "Lifecycle">>)>>)
          [] t = "OnInitLifecycleCallable" -> Handler("on_init")
          [] t = "OnDestroyLifecycleCallable" -> Handler("on_destroy")
          [] t = "EnvironmentAwareLifecycleCallable" -> Handler("inject_environment")
          [] t = "InjectLifecycleCallable" -> Handler("inject")
          [] OTHER -> EnvClass(DI, <<>>, <<InitMethod(<<>>)>>)]

Injectable(t, eager, singleton) ==
    [dec |-> "injectable", type |-> t, eager |-> eager, singleton |-> singleton]
EnvironmentDec(t) == [dec |-> "environment", type |-> t, eager |-> TRUE, singleton |-> TRUE]

InternalOrder ==
    <<Injectable("CallableProcessor", TRUE, TRUE),
      Injectable("OnInitLifecycleCallable", TRUE, TRUE),
      Injectable("OnDestroyLifecycleCallable", TRUE, TRUE),
      Injectable("EnvironmentAwareLifecycleCallable", TRUE, TRUE),
      Injectable("InjectLifecycleCallable", TRUE, TRUE),
      EnvironmentDec(DIEnvironment)>>

(* a program: its own classes beside the internal ones, the decorators in    *)
(* the order they run, the Environment(scope, parent) calls it makes, each   *)
(* as the scope and the scope of the parent, and the types it asks for       *)
Program(classes, order, containers, ask) ==
    [classes |-> classes @@ InternalClasses, order |-> order,
     containers |-> containers, ask |-> ask]
Root(scope) == <<scope, NoneT>>
Child(scope, parent) == <<scope, parent>>

-----------------------------------------------------------------------------
(* Sample programs *)

APP == <<"app">>

(* the classes of tests/test_di.py: Bar(foo: Foo) with every lifecycle      *)
(* marker, Foo and Baz made by create-marked methods of the scope            *)
TestDiClasses ==
    [t \in {"Foo", "Baz", "Bazong", "Bar", "SimpleConfiguration"} |->
        CASE t = "Foo" -> Class(<<>>, FALSE, APP, <<>>)
          [] t = "Baz" -> Class(<<>>, FALSE, APP, <<>>)
          [] t = "Bazong" -> Class(<<>>, FALSE, APP, <<InitMethod(<<"Foo">>)>>)
          [] t = "Bar" ->
                Class(<<>>, FALSE, APP,
                      <<InitMethod(<<"Foo">>),
                        Method("destroy", <<"on_destroy">>, <<>>),
                        Method("init", <<"on_init">>, <<>>),
                        Method("initEnvironment", <<"inject_environment">>, <<>>),
                        Method("set", <<"inject">>, <<"Baz", "Bazong">>)>>)
          [] OTHER ->
                EnvClass(APP, <<>>,
                         <<InitMethod(<<>>),
                           CreateMethod("create", "Baz", "Baz", TRUE, TRUE),
                           CreateMethod("createFoo", "Foo", "Foo", TRUE, TRUE)>>)]

TestDiPrograms ==
    {Program(TestDiClasses,
             <<Injectable("Bazong", e1, s1), Injectable("Bar", e2, s2),
               EnvironmentDec("SimpleConfiguration")>>,
             {Root("SimpleConfiguration"),
              Child("SimpleConfiguration", "SimpleConfiguration")},
             {"Bar", "Bazong"})
        : e1 \in {FALSE}, s1 \in {TRUE}, e2 \in BOOLEAN, s2 \in BOOLEAN}

LIB == <<"lib">>

(* a library scope with a singleton and a per-call class, and an           *)
(* application scope that may import the library                            *)
SharedClasses(imports) ==
    [t \in {"Shared", "Plain", "LibConf", "AppConf"} |->
        CASE t = "Shared" -> Class(<<>>, FALSE, LIB, <<InitMethod(<<>>)>>)
          [] t = "Plain" -> Class(<<>>, FALSE, LIB, <<InitMethod(<<>>)>>)
          [] t = "LibConf" -> EnvClass(LIB, <<>>, <<InitMethod(<<>>)>>)
          [] OTHER -> EnvClass(APP, imports, <<InitMethod(<<>>)>>)]

SharedPrograms ==
    {Program(SharedClasses(imports),
             <<Injectable("Shared", eager, TRUE), Injectable("Plain", FALSE, FALSE),
               EnvironmentDec("LibConf"), EnvironmentDec("AppConf")>>,
             IF imports = <<>> THEN {Root("LibConf"), Child("AppConf", "LibConf")}
             ELSE {Root("LibConf"), Root("AppConf")},
             {"Shared", "Plain"})
        : imports \in {<<>>, <<"LibConf">>}, eager \in BOOLEAN}

(* Foo(bar: Bar) as in tests/test_di.py, with Foo, Bar and two scopes in    *)
(* the modules "a" and "a.b"; one scope imports the other                    *)
A == <<"a">>
AB == <<"a", ".", "b">>

PrefixClasses(fooModule, barModule, innerImports) ==
    [t \in {"Foo", "Bar", "Outer", "Inner"} |->
        CASE t = "Foo" -> Class(<<>>, FALSE, fooModule, <<InitMethod(<<"Bar">>)>>)
          [] t = "Bar" -> Class(<<>>, FALSE, barModule, <<InitMethod(<<>>)>>)
          [] t = "Outer" ->
                EnvClass(A, IF innerImports THEN <<>> ELSE <<"Inner">>, <<InitMethod(<<>>)>>)
          [] OTHER ->
                EnvClass(AB, IF innerImports THEN <<"Outer">> ELSE <<>>, <<InitMethod(<<>>)>>)]

PrefixPrograms ==
    {Program(PrefixClasses(m[1], m[2], innerImports),
             IF innerImports
             THEN <<Injectable("Bar", eager, TRUE), Injectable("Foo", eager, TRUE),
                    EnvironmentDec("Outer"), EnvironmentDec("Inner")>>
             ELSE <<Injectable("Bar", eager, TRUE), Injectable("Foo", eager, TRUE),
                    EnvironmentDec("Inner"), EnvironmentDec("Outer")>>,
             {Root("Outer"), Root("Inner")}, {"Foo", "Bar"})
        : m \in {<<A, AB>>, <<AB, A>>}, innerImports \in BOOLEAN, eager \in {FALSE}}

(* constructor graphs as in tests/test_di_cycle.py: classes A, B, C, D with *)
(* the types their constructors ask for, their bases, and the order their    *)
(* decorators run in                                                         *)
NoParams == [A |-> <<>>, B |-> <<>>, C |-> <<>>, D |-> <<>>]
NoBases == NoParams

Graph(params, bases, order) == [params |-> params, bases |-> bases, order |-> order]

Graphs ==
    {Graph([NoParams EXCEPT !.A = <<"B">>, !.B = <<"A">>], NoBases, o)
        : o \in {<<"A", "B">>, <<"B", "A">>}}
    \cup {Graph([NoParams EXCEPT !.A = <<"A">>], NoBases, <<"A">>)}
    \cup {Graph([NoParams EXCEPT !.A = <<"B">>, !.B = <<"C">>, !.C = <<"A">>], NoBases, o)
        : o \in {<<"A", "B", "C">>, <<"C", "B", "A">>}}
    \cup {Graph([NoParams EXCEPT !.A = <<"B", "C">>, !.B = <<"D">>, !.C = <<"D">>],
                NoBases, o)
        : o \in {<<"A", "B", "C", "D">>, <<"D", "B", "C", "A">>}}
    \cup {Graph([NoParams EXCEPT !.A = <<"B">>, !.B = <<"C">>], NoBases, o)
        : o \in {<<"A", "B", "C">>, <<"C", "B", "A">>}}
    \cup {Graph([NoParams EXCEPT !.A = <<"B", "C">>, !.C = <<"A">>],
                [NoBases EXCEPT !.C = <<"B">>], o)
        : o \in {<<"B", "C", "A">>, <<"B", "A", "C">>}}

GraphClasses(g) ==
    [t \in {"A", "B", "C", "D", "Conf"} |->
        IF t = "Conf" THEN EnvClass(APP, <<>>, <<InitMethod(<<>>)>>)
        ELSE Class(g.bases[t], FALSE, APP, <<InitMethod(g.params[t])>>)]

GraphPrograms ==
    {Program(GraphClasses(g),
             [i \in 1..Len(g.order) |-> Injectable(g.order[i], eager, TRUE)]
                 \o <<EnvironmentDec("Conf")>>,
             {Root("Conf")}, {"A"})
        : g \in Graphs, eager \in BOOLEAN}

(* class hierarchies: a type I, abstract or not, registered or not, with    *)
(* C1(I) and C2(I) or C2(C1), registered in either order, or C1 registered *)
(* twice                                                                     *)
Hierarchy(abstract, base, c2base, order) ==
    [abstract |-> abstract, base |-> base, c2base |-> c2base, order |-> order]

Hierarchies ==
    {Hierarchy(abstract, FALSE, "I", o)
        : abstract \in BOOLEAN, o \in {<<"C1", "C2">>}}
    \cup {Hierarchy(FALSE, TRUE, "I", o)
        : o \in {<<"I", "C1", "C2">>, <<"I", "C1">>, <<"C1", "I">>}}
    \cup {Hierarchy(FALSE, FALSE, "C1", o)
        : o \in {<<"C1", "C2">>, <<"C2", "C1">>}}
    \cup {Hierarchy(FALSE, FALSE, "I", <<"C1", "C1">>)}

HierarchyClasses(h) ==
    [t \in {"I", "C1", "C2", "Conf"} |->
        CASE t = "I" -> Class(<<>>, h.abstract, APP, <<InitMethod(<<>>)>>)
          [] t = "C1" -> Class(<<"I">>, FALSE, APP, <<InitMethod(<<>>)>>)
          [] t = "C2" -> Class(<<h.c2base>>, FALSE, APP, <<InitMethod(<<>>)>>)
          [] OTHER -> EnvClass(APP, <<>>, <<InitMethod(<<>>)>>)]

HierarchyPrograms ==
    {Program(HierarchyClasses(h),
             [i \in 1..Len(h.order) |-> Injectable(h.order[i], FALSE, TRUE)]
                 \o <<EnvironmentDec("Conf")>>,
             {Root("Conf")}, {"I", "C1", "C2"})
        : h \in Hierarchies}

(* a library scope with a singleton Base, and an application scope with a   *)
(* singleton Only(base: Base); children are built over the library          *)
(* container, from the application scope and from the library scope again   *)
ChildClasses ==
    [t \in {"Base", "Only", "LibConf", "AppConf"} |->
        CASE t = "Base" -> Class(<<>>, FALSE, LIB, <<InitMethod(<<>>)>>)
          [] t = "Only" -> Class(<<>>, FALSE, APP, <<InitMethod(<<"Base">>)>>)
          [] t = "LibConf" -> EnvClass(LIB, <<>>, <<InitMethod(<<>>)>>)
          [] OTHER -> EnvClass(APP, <<>>, <<InitMethod(<<>>)>>)]

ChildPrograms ==
    {Program(ChildClasses,
             <<Injectable("Base", e1, TRUE), Injectable("Only", e2, TRUE),
               EnvironmentDec("LibConf"), EnvironmentDec("AppConf")>>,
             {Root("LibConf"), Child("AppConf", "LibConf"), Child("LibConf", "LibConf")},
             {"Base", "Only"})
        : e1 \in BOOLEAN, e2 \in BOOLEAN}

(* constructor graphs in which a class X is declared and never registered: *)
(* the constructor of A or of B, or an inject-marked method of A, asks for  *)
(* it; in the last graph nothing is missing                                  *)
MissingGraph(params, inject, order) == [params |-> params, inject |-> inject, order |-> order]

MissingGraphs ==
    {MissingGraph([NoParams EXCEPT !.A = <<"X">>], <<>>, <<"A">>),
     MissingGraph(NoParams, <<"X">>, <<"A">>),
     MissingGraph([NoParams EXCEPT !.A = <<"B">>], <<>>, <<"B", "A">>)}
    \cup {MissingGraph([NoParams EXCEPT !.A = <<"B">>, !.B = <<"X">>], <<>>, o)
        : o \in {<<"A", "B">>, <<"B", "A">>}}
    \cup {MissingGraph([NoParams EXCEPT !.A = <<"B", "C", "X">>, !.B = <<"D">>,
                                       !.C = <<"D">>], <<>>, o)
        : o \in {<<"A", "B", "C", "D">>, <<"D", "B", "C", "A">>}}

MissingClasses(g) ==
    [t \in {"A", "B", "C", "D", "X", "Conf"} |->
        CASE t = "Conf" -> EnvClass(APP, <<>>, <<InitMethod(<<>>)>>)
          [] t = "X" -> Class(<<>>, FALSE, APP, <<InitMethod(<<>>)>>)
          [] t = "A" /\ g.inject # <<>> ->
                Class(<<>>, FALSE, APP,
                      <<InitMethod(g.params[t]), Method("set", <<"inject">>, g.inject)>>)
          [] OTHER -> Class(<<>>, FALSE, APP, <<InitMethod(g.params[t])>>)]

MissingPrograms ==
    {Program(MissingClasses(g),
             [i \in 1..Len(g.order) |-> Injectable(g.order[i], eager, TRUE)]
                 \o <<EnvironmentDec("Conf")>>,
             {Root("Conf")}, {"A"})
        : g \in MissingGraphs, eager \in BOOLEAN}

(* constructors of several parameters: a class A over the registered        *)
(* classes B, C(I) and D, I being an unregistered base class, with the      *)
(* parameter types of its constructor and of an inject-marked method         *)
Signature(params, inject) == [params |-> params, inject |-> inject]

Signatures ==
    {Signature(<<"B", "D">>, <<>>), Signature(<<"B", "B">>, <<>>),
     Signature(<<"I", "C">>, <<>>), Signature(<<"C", "I">>, <<>>),
     Signature(<<"B">>, <<"D">>), Signature(<<"B">>, <<"B">>),
     Signature(<<"D", "B">>, <<"B", "D">>)}

SignatureClasses(g) ==
    [t \in {"A", "B", "C", "D", "I", "Conf"} |->
        CASE t = "Conf" -> EnvClass(APP, <<>>, <<InitMethod(<<>>)>>)
          [] t = "C" -> Class(<<"I">>, FALSE, APP, <<InitMethod(<<>>)>>)
          [] t = "A" /\ g.inject # <<>> ->
                Class(<<>>, FALSE, APP,
                      <<InitMethod(g.params), Method("set", <<"inject">>, g.inject)>>)
          [] t = "A" -> Class(<<>>, FALSE, APP, <<InitMethod(g.params)>>)
          [] OTHER -> Class(<<>>, FALSE, APP, <<InitMethod(<<>>)>>)]

SignaturePrograms ==
    {Program(SignatureClasses(g),
             <<Injectable("B", FALSE, TRUE), Injectable("C", FALSE, TRUE),
               Injectable("D", FALSE, singleton), Injectable("A", eager, TRUE),
               EnvironmentDec("Conf")>>,
             {Root("Conf")}, {"A", "B"})
        : g \in Signatures, eager \in BOOLEAN, singleton \in BOOLEAN}

(* a marker of the program's own: a class Audited with a method marked      *)
(* "audit" and an init-marked one, and the LifecycleCallable subclass        *)
(* AuditCallable that handles the marker, registered in either order         *)
MarkerClasses ==
    [t \in {"Audited", "AuditCallable", "Conf"} |->
        CASE t = "Conf" -> EnvClass(APP, <<>>, <<InitMethod(<<>>)>>)
          [] t = "AuditCallable" -> [Handler("audit") EXCEPT !.module = APP]
          [] OTHER -> Class(<<>>, FALSE, APP,
                            <<InitMethod(<<>>), Method("check", <<"audit">>, <<>>),
                              Method("start", <<"on_init">>, <<>>)>>)]

MarkerPrograms ==
    {Program(MarkerClasses,
             order \o <<EnvironmentDec("Conf")>>,
             {Root("Conf")}, {"Audited", "AuditCallable"})
        : order \in UNION {{<<Injectable("Audited", e1, single),
                               Injectable("AuditCallable", e2, TRUE)>>,
                             <<Injectable("AuditCallable", e2, TRUE),
                               Injectable("Audited", e1, single)>>}
                              : e1 \in BOOLEAN, e2 \in BOOLEAN, single \in BOOLEAN}}

(* scopes that import scopes: High(low: Low) with High and Low each in one  *)
(* of the modules "app", "lib" and "ext", a scope per module, and the       *)
(* imports of the scope of "app"                                             *)
EXT == <<"ext">>
ImportClasses(high, low, imports) ==
    [t \in {"High", "Low", "LibConf", "ExtConf", "AppConf"} |->
        CASE t = "High" -> Class(<<>>, FALSE, high, <<InitMethod(<<"Low">>)>>)
          [] t = "Low" -> Class(<<>>, FALSE, low, <<InitMethod(<<>>)>>)
          [] t = "LibConf" -> EnvClass(LIB, <<>>, <<InitMethod(<<>>)>>)
          [] t = "ExtConf" -> EnvClass(EXT, <<>>, <<InitMethod(<<>>)>>)
          [] OTHER -> EnvClass(APP, imports, <<InitMethod(<<>>)>>)]

ImportPrograms ==
    {Program(ImportClasses(high, low, imports),
             <<Injectable("Low", FALSE, TRUE), Injectable("High", FALSE, TRUE),
               EnvironmentDec("LibConf"), EnvironmentDec("ExtConf"),
               EnvironmentDec("AppConf")>>,
             {Root("AppConf"), Child("AppConf", "LibConf"), Root("LibConf")},
             {"High"})
        : high \in {APP, LIB}, low \in {APP, LIB, EXT},
          imports \in {<<>>, <<"LibConf">>, <<"LibConf", "ExtConf">>,
                       <<"ExtConf", "LibConf">>}}

(* a type reached on two inheritance paths: B(I), C(I) and D(B, C), with   *)
(* I never registered and the others registered in the given order           *)
DiamondClasses ==
    [t \in {"I", "B", "C", "D", "Conf"} |->
        CASE t = "Conf" -> EnvClass(APP, <<>>, <<InitMethod(<<>>)>>)
          [] t = "I" -> Class(<<>>, FALSE, APP, <<InitMethod(<<>>)>>)
          [] t = "D" -> Class(<<"B", "C">>, FALSE, APP, <<InitMethod(<<>>)>>)
          [] OTHER -> Class(<<"I">>, FALSE, APP, <<InitMethod(<<>>)>>)]

DiamondPrograms ==
    {Program(DiamondClasses,
             [i \in 1..Len(order) |-> Injectable(order[i], eager, TRUE)]
                 \o <<EnvironmentDec("Conf")>>,
             {Root("Conf")}, {"I", "B", "D"})
        : order \in {<<"D">>, <<"B">>, <<"B", "C">>, <<"B", "D">>, <<"B", "C", "D">>},
          eager \in BOOLEAN}

-----------------------------------------------------------------------------
(* The program that runs *)

RECURSIVE SetToSeq(_)
SetToSeq(S) ==
    IF S = {} THEN <<>>
    ELSE LET x == CHOOSE y \in S : TRUE IN <<x>> \o SetToSeq(S \ {x})

Programs ==
    SetToSeq(TestDiPrograms) \o SetToSeq(SharedPrograms) \o SetToSeq(PrefixPrograms)
        \o SetToSeq(GraphPrograms) \o SetToSeq(HierarchyPrograms)
        \o SetToSeq(ChildPrograms) \o SetToSeq(MissingPrograms)
        \o SetToSeq(SignaturePrograms) \o SetToSeq(MarkerPrograms)
        \o SetToSeq(ImportPrograms) \o SetToSeq(DiamondPrograms)
Indices(family) == {i \in 1..Len(Programs) : Programs[i] \in family}

Decl == Programs[prog]

Types == DOMAIN Decl.classes

RECURSIVE IsSubclass(_, _)
IsSubclass(a, b) ==
    \/ a = b
    \/ \E i \in 1..Len(Decl.classes[a].bases) : IsSubclass(Decl.classes[a].bases[i], b)

(* TypeDescriptor.__init__: the methods of the bases merged in order, then  *)
(* the local ones; an overriding name keeps the place of the inherited one  *)
RECURSIVE MergeMethods(_, _, _)
MergeMethods(d, ms, i) ==
    IF i > Len(ms) THEN d
    ELSE MergeMethods(DictPut(d, ms[i].k, ms[i].v), ms, i + 1)

RECURSIVE PutMethods(_, _, _)
PutMethods(d, ms, i) ==
    IF i > Len(ms) THEN d
    ELSE PutMethods(DictPut(d, ms[i].name, ms[i]), ms, i + 1)

RECURSIVE MethodsOf(_)
RECURSIVE MergeBases(_, _, _)
MergeBases(d, bases, i) ==
    IF i > Len(bases) THEN d
    ELSE MergeBases(MergeMethods(d, MethodsOf(bases[i]), 1), bases, i + 1)
MethodsOf(t) ==
    PutMethods(MergeBases(<<>>, Decl.classes[t].bases, 1), Decl.classes[t].methods, 1)

has_decorator(m, marker) == \E i \in 1..Len(m.marks) : m.marks[i] = marker

-----------------------------------------------------------------------------
(* Providers: registration *)

ClassInstanceProvider(t, eager, singleton) ==
    [kind |-> "class", host |-> t, type |-> t, eager |-> eager, singleton |-> singleton,
     depsNone |-> TRUE, dependencies |-> <<>>, params |-> 0, makes |-> t]
FunctionInstanceProvider(host, m) ==
    [kind |-> "function", host |-> host, type |-> m.ret, eager |-> m.eager,
     singleton |-> m.singleton, depsNone |-> TRUE, dependencies |-> <<>>, params |-> 0,
     makes |-> m.makes]

(* a cache entry: one provider, or an AmbiguousProvider with its list *)
Single(pid) == [amb |-> FALSE, type |-> NoneT, pid |-> pid, list |-> <<>>]
AmbiguousProvider(t, list) == [amb |-> TRUE, type |-> t, pid |-> 0, list |-> list]

is_injectable(t) == ~Decl.classes[t].abstract

(* R = [provs, providers, cache, err] *)
RECURSIVE cacheProviderForType(_, _, _)
RECURSIVE cacheBases(_, _, _, _)
cacheBases(R, pid, bases, i) ==
    IF i > Len(bases) \/ R.err # NoErr THEN R
    ELSE cacheBases(IF is_injectable(bases[i])
                    THEN cacheProviderForType(R, pid, bases[i])
                    ELSE R,
                    pid, bases, i + 1)
cacheProviderForType(R, pid, t) ==
    IF ~DictHas(R.cache, t)
    THEN cacheBases([R EXCEPT !.cache = DictPut(@, t, Single(pid))],
                    pid, Decl.classes[t].bases, 1)
    ELSE IF t = R.provs[pid].type
    THEN [R EXCEPT !.err = "already registered"]
    ELSE LET existing == DictGet(R.cache, t)
             entry == IF existing.amb
                      THEN [existing EXCEPT !.list = Append(@, pid)]
                      ELSE AmbiguousProvider(t, <<existing.pid, pid>>)
         IN  cacheBases([R EXCEPT !.cache = DictPut(@, t, entry)],
                        pid, Decl.classes[t].bases, 1)

register(R, provider) ==
    IF R.err # NoErr THEN R
    ELSE LET pid == Len(R.provs) + 1
             R1 == [R EXCEPT !.provs = Append(@, provider),
                             !.providers = DictPut(@, provider.type, pid)]
         IN  cacheProviderForType(R1, pid, provider.type)

(* registerFactories: one FunctionInstanceProvider per create-marked method *)
RECURSIVE registerFactories(_, _, _, _)
registerFactories(R, t, ms, i) ==
    IF i > Len(ms) \/ R.err # NoErr THEN R
    ELSE registerFactories(IF has_decorator(ms[i].v, "create")
                           THEN register(R, FunctionInstanceProvider(t, ms[i].v))
                           ELSE R,
                           t, ms, i + 1)

(* the decorators injectable(eager, singleton) and environment(imports) *)
injectable(R, d) == register(R, ClassInstanceProvider(d.type, d.eager, d.singleton))
environment(R, d) ==
    registerFactories(register(R, ClassInstanceProvider(d.type, TRUE, TRUE)),
                      d.type, MethodsOf(d.type), 1)
Decorate(R, d) == IF d.dec = "environment" THEN environment(R, d) ELSE injectable(R, d)

RECURSIVE DecorateAll(_, _, _)
DecorateAll(R, order, i) ==
    IF i > Len(order) THEN R ELSE DecorateAll(Decorate(R, order[i]), order, i + 1)

-----------------------------------------------------------------------------
(* Providers: the one-time static resolution *)

(* get_type() of a cache entry; a dependency is used through it only *)
get_type(P, e) == IF e.amb THEN e.type ELSE P[e.pid].type

(* InstanceProvider.add_dependency: skipped when the type is a subclass of  *)
(* the type of a dependency already listed                                   *)
add_dependency(provider, t) ==
    ~\E i \in 1..Len(provider.dependencies) : IsSubclass(t, provider.dependencies[i])

(* S = [provs, ctx, err, report]; ctx is Providers.Context.dependencies *)
RECURSIVE ContextAdd(_, _, _)
ContextAdd(S, ts, i) ==
    IF i > Len(ts) \/ S.err # NoErr THEN S
    ELSE IF \E j \in 1..Len(S.ctx) : S.ctx[j] = ts[i]
    THEN [S EXCEPT !.err = "cycle", !.report = Append(S.ctx, ts[i])]
    ELSE ContextAdd([S EXCEPT !.ctx = Append(@, ts[i])], ts, i + 1)

RECURSIVE resolveProvider(_, _)
RECURSIVE resolveParams(_, _, _, _, _)
RECURSIVE resolveInject(_, _, _, _)

(* the loop "provider = Providers.getProvider(param); if add_dependency:    *)
(* provider.resolve(context)"; counted says whether self.params counts it   *)
resolveParams(S, pid, params, i, counted) ==
    IF i > Len(params) \/ S.err # NoErr THEN S
    ELSE IF ~DictHas(cache, params[i])
    THEN [S EXCEPT !.err = "not registered", !.report = <<params[i]>>]
    ELSE LET e == DictGet(cache, params[i])
             t == get_type(S.provs, e)
             S1 == IF counted THEN [S EXCEPT !.provs[pid].params = @ + 1] ELSE S
             S2 == IF add_dependency(S1.provs[pid], t)
                   THEN LET S3 == [S1 EXCEPT !.provs[pid].dependencies = Append(@, t)]
                        IN  IF e.amb THEN S3 ELSE resolveProvider(S3, e.pid)
                   ELSE S1
         IN  resolveParams(S2, pid, params, i + 1, counted)

resolveInject(S, pid, ms, i) ==
    IF i > Len(ms) \/ S.err # NoErr THEN S
    ELSE resolveInject(IF has_decorator(ms[i].v, "inject")
                       THEN resolveParams(S, pid, ms[i].v.params, 1, FALSE)
                       ELSE S,
                       pid, ms, i + 1)

(* ClassInstanceProvider.resolve and FunctionInstanceProvider.resolve *)
resolveProvider(S, pid) ==
    LET p == S.provs[pid] IN
    IF S.err # NoErr THEN S
    ELSE IF ~p.depsNone THEN ContextAdd(S, p.dependencies, 1)
    ELSE LET S1 == ContextAdd([S EXCEPT !.provs[pid].depsNone = FALSE], <<p.type>>, 1)
             ms == MethodsOf(p.type)
         IN  IF S1.err # NoErr THEN S1
             ELSE IF p.kind = "function" THEN resolveParams(S1, pid, <<p.host>>, 1, FALSE)
             ELSE IF ~DictHas(ms, "__init__") THEN [S1 EXCEPT !.err = "no __init__"]
             ELSE resolveInject(
                      resolveParams(S1, pid, DictGet(ms, "__init__").params, 1, TRUE),
                      pid, ms, 1)

(* Providers.resolve: every registered provider, each with a new Context *)
RECURSIVE resolveAll(_, _)
resolveAll(S, i) ==
    IF i > Len(providers) \/ S.err # NoErr THEN S
    ELSE resolveAll(resolveProvider([S EXCEPT !.ctx = <<>>], providers[i].v), i + 1)

Providers_resolve ==
    LET S0 == [provs |-> provs, ctx |-> <<>>, err |-> NoErr, report |-> <<>>]
    IN  IF resolved THEN S0 ELSE resolveAll(S0, 1)

-----------------------------------------------------------------------------
(* Objects of a running program *)

(* AbstractInstanceProvider getters of a cache entry *)
get_module(P, e) ==
    IF e.amb THEN Decl.classes[e.type].module ELSE Decl.classes[P[e.pid].host].module
is_eager(P, e) == IF e.amb THEN FALSE ELSE P[e.pid].eager
is_singleton(P, e) == IF e.amb THEN FALSE ELSE P[e.pid].singleton

(* EnvironmentInstanceProvider.__init__: the wrapper and its scope; value   *)
(* is SingletonScope.value, 0 for None                                       *)
EnvironmentInstanceProvider(P, env, e) ==
    [environment |-> env, provider |-> e, dependencies |-> <<>>,
     singleton |-> is_singleton(P, e), value |-> 0]

(* Environment.__init__, the fields before anything is loaded; and for the  *)
(* record the provider map as it was when the constructor returned           *)
NewEnv(scope, parent) ==
    [env |-> scope, parent |-> parent,
     providers |-> IF parent = 0 THEN <<>> ELSE envs[parent].providers,
     lifecycleProcessors |-> IF parent = 0 THEN <<>> ELSE envs[parent].lifecycleProcessors,
     instances |-> <<>>, alive |-> FALSE, destroys |-> 0, built |-> <<>>]

(* an object: its runtime type, the constructor arguments, the container    *)
(* whose created() took it, the marked methods called on it so far, for a   *)
(* CallableProcessor its callables and cache; and for the record whether     *)
(* created() has returned for it and how many destroy() calls its container  *)
(* had seen when it was constructed                                          *)
Object(t, args, env, born) ==
    [type |-> t, args |-> args, env |-> env, calls |-> <<>>,
     callables |-> <<>>, cache |-> <<>>, done |-> FALSE, born |-> born]

(* handlers that all pass ON_INIT to their base *)
LifecycleAlwaysInit(marker) == "ON_INIT"

(* the lifecycle a LifecycleCallable subclass passes to its base *)
LifecycleOf(marker) == IF marker = "on_destroy" THEN "ON_DESTROY" ELSE "ON_INIT"

Raise(M, e) == [M EXCEPT !.err = e]

-----------------------------------------------------------------------------
(* CallableProcessor *)

RECURSIVE methodCalls(_, _, _, _)
methodCalls(callables, m, j, acc) ==
    IF j > Len(m.marks) THEN acc
    ELSE methodCalls(callables, m, j + 1,
             IF DictHas(callables, m.marks[j])
             THEN Append(acc, [method |-> m, decorator |-> m.marks[j],
                               lifecycleCallable |-> DictGet(callables, m.marks[j])])
             ELSE acc)

RECURSIVE computeCallablesFrom(_, _, _, _)
computeCallablesFrom(callables, ms, i, acc) ==
    IF i > Len(ms) THEN acc
    ELSE computeCallablesFrom(callables, ms, i + 1, methodCalls(callables, ms[i].v, 1, acc))

computeCallables(callables, t) == computeCallablesFrom(callables, MethodsOf(t), 1, <<>>)

(* callablesFor: the processor with the list for t in its cache *)
callablesFor(M, proc, t) ==
    IF DictHas(M.heap[proc].cache, t) THEN M
    ELSE [M EXCEPT !.heap[proc].cache =
              DictPut(@, t, computeCallables(M.heap[proc].callables, t))]

-----------------------------------------------------------------------------
(* Creation: M = [provs, envs, eips, heap, err, report, ret, argv, depth,  *)
(* loaded]; an exception is M.err, and every step passes it on               *)

RECURSIVE EIP_create(_, _, _)
RECURSIVE Scope_get(_, _, _)
RECURSIVE createArgs(_, _, _, _)
RECURSIVE provider_create(_, _, _)
RECURSIVE created(_, _, _)
RECURSIVE executeProcessors(_, _, _, _, _)
RECURSIVE processLifecycle(_, _, _, _, _)
RECURSIVE runCallables(_, _, _, _, _, _)
RECURSIVE execute(_, _, _, _)
RECURSIVE injectArgs(_, _, _, _)
RECURSIVE Environment_get(_, _, _)

(* Environment.get *)
Environment_get(M, env, t) ==
    IF M.err # NoErr THEN M
    ELSE IF ~DictHas(M.envs[env].providers, t) THEN Raise(M, "not supported")
    ELSE EIP_create(M, DictGet(M.envs[env].providers, t), env)

(* one more element of an argument list: the value M returned, after acc *)
pushArg(M, acc) == IF M.err # NoErr THEN M ELSE [M EXCEPT !.argv = Append(acc, M.ret)]

(* a handler that computes no arguments *)
injectNothing(M, env, params, i) == M

(* InjectLifecycleCallable.args: environment.get of every parameter type,   *)
(* collected in M.argv                                                       *)
injectArgs(M, env, params, i) ==
    IF M.err # NoErr \/ i > Len(params) THEN M
    ELSE injectArgs(pushArg(Environment_get(M, env, params[i]), M.argv), env, params, i + 1)

(* the marked method runs on the instance with the arguments in M.argv *)
callMethod(M, call, inst, env) ==
    IF M.err # NoErr THEN M
    ELSE [M EXCEPT !.heap[inst].calls =
             Append(@, [method |-> call.method.name, args |-> M.argv, env |-> env])]

(* MethodCall.execute: the handler computes the arguments, the method runs *)
execute(M, call, inst, env) ==
    LET marker == Decl.classes[M.heap[call.lifecycleCallable].type].handles
    IN  callMethod(IF marker = "inject"
                   THEN injectArgs([M EXCEPT !.argv = <<>>], env, call.method.params, 1)
                   ELSE [M EXCEPT !.argv = <<>>],
                   call, inst, IF marker = "inject_environment" THEN env ELSE 0)

runCallables(M, cs, i, lifecycle, inst, env) ==
    IF i > Len(cs) \/ M.err # NoErr THEN M
    ELSE runCallables(
             IF LifecycleOf(Decl.classes[M.heap[cs[i].lifecycleCallable].type].handles)
                    = lifecycle
             THEN execute(M, cs[i], inst, env)
             ELSE M,
             cs, i + 1, lifecycle, inst, env)

(* the loop of processLifecycle over the callables cached for the type *)
runCached(M, proc, lifecycle, inst, env) ==
    runCallables(M, DictGet(M.heap[proc].cache, M.heap[inst].type), 1, lifecycle, inst, env)

(* CallableProcessor.processLifecycle *)
processLifecycle(M, proc, lifecycle, inst, env) ==
    runCached(callablesFor(M, proc, M.heap[inst].type), proc, lifecycle, inst, env)

(* Environment.executeProcessors *)
executeProcessors(M, env, lifecycle, inst, i) ==
    IF M.err # NoErr \/ i > Len(M.envs[env].lifecycleProcessors) THEN M
    ELSE executeProcessors(
             processLifecycle(M, M.envs[env].lifecycleProcessors[i], lifecycle, inst, env),
             env, lifecycle, inst, i + 1)

(* created() returns the instance *)
returnInstance(M, inst) ==
    IF M.err # NoErr THEN M ELSE [M EXCEPT !.ret = inst, !.heap[inst].done = TRUE]

(* a created() that executes no processors *)
createdUnprocessed(M, env, inst) ==
    returnInstance([M EXCEPT !.envs[env].instances = Append(@, inst)], inst)

(* Environment.created: remember a lifecycle processor, remember the        *)
(* instance, execute the processors                                          *)
created(M, env, inst) ==
    returnInstance(
        executeProcessors(
            [M EXCEPT !.envs[env].lifecycleProcessors =
                          IF Decl.classes[M.heap[inst].type].processor
                          THEN Append(@, inst) ELSE @,
                      !.envs[env].instances = Append(@, inst)],
            env, "ON_INIT", inst, 1),
        inst)

(* the constructor of class t: the object, and for a LifecycleCallable      *)
(* subclass processor.register(self) on its first argument                  *)
construct(M, t, args, env) ==
    LET id == Len(M.heap) + 1
        M1 == [M EXCEPT !.heap = Append(@, Object(t, args, env, M.envs[env].destroys))]
    IN  IF Decl.classes[t].handles # NoneT
        THEN [M1 EXCEPT !.heap[args[1]].callables = DictPut(@, Decl.classes[t].handles, id)]
        ELSE M1

(* ClassInstanceProvider.create, FunctionInstanceProvider.create and        *)
(* AmbiguousProvider.create, on the arguments in M.argv: a class is called  *)
(* with args[:self.params], a create-marked method with its host             *)
provider_create(M, e, env) ==
    IF M.err # NoErr THEN M
    ELSE IF e.amb THEN Raise(M, "multiple candidates")
    ELSE LET p == M.provs[e.pid]
             a == IF p.kind = "class"
                  THEN SubSeq(M.argv, 1, Min(p.params, Len(M.argv)))
                  ELSE <<>>
         IN  IF p.kind = "class"
                    /\ Len(a) # Len(DictGet(MethodsOf(p.type), "__init__").params)
             THEN Raise(M, "TypeError")
             ELSE created(construct(M, p.makes, a, env), env, Len(M.heap) + 1)

(* the argProvider lambda of EnvironmentInstanceProvider.create, collected  *)
(* in M.argv                                                                 *)
createArgs(M, deps, i, env) ==
    IF M.err # NoErr \/ i > Len(deps) THEN M
    ELSE createArgs(pushArg(EIP_create(M, deps[i], env), M.argv), deps, i + 1, env)

(* a SingletonScope that never finds its value set *)
ScopeForgets(eip) == FALSE

(* SingletonScope.get: "if self.value is None" fails; a plain Scope holds    *)
(* nothing                                                                   *)
ScopeHolds(eip) == eip.singleton /\ eip.value # 0

(* a SingletonScope that stores nothing *)
storeNothing(M, e, depth) == IF M.err # NoErr THEN M ELSE [M EXCEPT !.depth = depth]

(* "self.value = ..." of SingletonScope.get; a plain Scope stores nothing *)
storeValue(M, e, depth) ==
    IF M.err # NoErr THEN M
    ELSE [M EXCEPT !.depth = depth,
                   !.eips[e].value = IF M.eips[e].singleton THEN M.ret ELSE @]

(* Scope.get, and SingletonScope.get past its test: the arguments, the      *)
(* provider's create, and for a singleton the store into self.value          *)
Scope_get(M, e, env) ==
    IF M.depth >= MaxDepth THEN Raise(M, "RecursionError")
    ELSE storeValue(
             provider_create(
                 createArgs([M EXCEPT !.depth = @ + 1, !.argv = <<>>],
                            M.eips[e].dependencies, 1, env),
                 M.eips[e].provider, M.eips[e].environment),
             e, M.depth)

(* EnvironmentInstanceProvider.create *)
EIP_create(M, e, env) ==
    IF M.err # NoErr THEN M
    ELSE IF ScopeHolds(M.eips[e]) THEN [M EXCEPT !.ret = M.eips[e].value]
    ELSE Scope_get(M, e, env)

-----------------------------------------------------------------------------
(* Environment.__init__ *)

(* EnvironmentInstanceProvider.tweakDependencies, from dependency j on *)
RECURSIVE tweakFrom(_, _, _, _)
tweakFrom(M, e, self, j) ==
    LET entry == M.eips[e].provider
        deps == IF entry.amb THEN <<>> ELSE M.provs[entry.pid].dependencies
    IN  IF M.err # NoErr \/ j > Len(deps) THEN M
        ELSE IF ~DictHas(M.envs[self].providers, deps[j]) THEN Raise(M, "missing import")
        ELSE tweakFrom([M EXCEPT !.eips[e].dependencies =
                            Append(@, DictGet(M.envs[self].providers, deps[j]))],
                       e, self, j + 1)

(* iterating get_dependencies() of a provider that was never resolved       *)
(* iterates None                                                             *)
tweakDependencies(M, e, self) ==
    LET entry == M.eips[e].provider
    IN  IF M.err # NoErr THEN M
        ELSE IF ~entry.amb /\ M.provs[entry.pid].depsNone THEN Raise(M, "TypeError")
        ELSE tweakFrom(M, e, self, 1)

(* a scan that takes the cache entries of the scope's own module only *)
localProvidersExact(P, scan) ==
    SelectSeq(cache, LAMBDA kv : get_module(P, kv.v) = scan)

(* localProviders: the cache entries whose module starts with the scope's *)
localProviders(P, scan) ==
    SelectSeq(cache, LAMBDA kv : StartsWith(get_module(P, kv.v), scan))

(* a container that enters its wrappers into the map of its parent too *)
RECURSIVE registerProvidersUpward(_, _, _, _)
registerProvidersUpward(M, self, local, i) ==
    IF i > Len(local) THEN M
    ELSE registerProvidersUpward(
             [M EXCEPT !.eips = Append(@, EnvironmentInstanceProvider(M.provs, self, local[i].v)),
                       !.envs = [e \in 1..Len(M.envs) |->
                                    IF e = self \/ e = M.envs[self].parent
                                    THEN [M.envs[e] EXCEPT !.providers =
                                              DictPut(@, local[i].k, Len(M.eips) + 1)]
                                    ELSE M.envs[e]]],
             self, local, i + 1)

RECURSIVE registerProviders(_, _, _, _)
registerProviders(M, self, local, i) ==
    IF i > Len(local) THEN M
    ELSE registerProviders(
             [M EXCEPT !.eips = Append(@, EnvironmentInstanceProvider(M.provs, self, local[i].v)),
                       !.envs[self].providers = DictPut(@, local[i].k, Len(M.eips) + 1)],
             self, local, i + 1)

RECURSIVE tweakProviders(_, _, _, _)
tweakProviders(M, self, local, i) ==
    IF i > Len(local) \/ M.err # NoErr THEN M
    ELSE tweakProviders(
             tweakDependencies(M, DictGet(M.envs[self].providers, local[i].k), self),
             self, local, i + 1)

(* "load providers", "register providers", "tweak dependencies" *)
loadLocal(M, self, local) ==
    IF M.err # NoErr THEN M
    ELSE tweakProviders(registerProviders(M, self, local, 1), self, local, 1)

RECURSIVE load_environment(_, _, _)
RECURSIVE loadImports(_, _, _, _)
loadImports(M, self, imports, i) ==
    IF i > Len(imports) \/ M.err # NoErr THEN M
    ELSE loadImports(load_environment(M, self, imports[i]), self, imports, i + 1)
load_environment(M, self, env) ==
    IF M.err # NoErr \/ env \in M.loaded THEN M
    ELSE IF ~Decl.classes[env].isEnv
    THEN Raise([M EXCEPT !.loaded = @ \cup {env}], "not an environment class")
    ELSE loadLocal(loadImports([M EXCEPT !.loaded = @ \cup {env}], self,
                               Decl.classes[env].imports, 1),
                   self, localProviders(M.provs, Decl.classes[env].module))

(* a constructor that leaves every object to the first get() *)
createLazily(M, self, i) == M

(* "construct eager objects" *)
RECURSIVE createEager(_, _, _)
createEager(M, self, i) ==
    IF M.err # NoErr \/ i > Len(M.envs[self].providers) THEN M
    ELSE LET e == M.envs[self].providers[i].v
         IN  createEager(IF is_eager(M.provs, M.eips[e].provider)
                         THEN EIP_create(M, e, self)
                         ELSE M,
                         self, i + 1)

(* the new container with its fields set, after Providers.resolve() *)
newEnvironment(S, scope, parent) ==
    [provs |-> S.provs, envs |-> Append(envs, NewEnv(scope, parent)),
     eips |-> eips, heap |-> heap, err |-> S.err, report |-> S.report,
     ret |-> 0, argv |-> <<>>, depth |-> 0, loaded |-> {}]

(* "if parent is None: load_environment(DIEnvironment)" *)
loadInternal(M, self, parent) ==
    IF parent = 0 THEN load_environment(M, self, DIEnvironment) ELSE M

(* the constructor returned: the caller holds the container *)
returnEnvironment(M, self) ==
    IF M.err = NoErr
    THEN [M EXCEPT !.envs[self].alive = TRUE, !.envs[self].built = M.envs[self].providers]
    ELSE M

Environment_init(scope, parent) ==
    returnEnvironment(
        createEager(
            load_environment(
                loadInternal(newEnvironment(Providers_resolve, scope, parent),
                             Len(envs) + 1, parent),
                Len(envs) + 1, scope),
            Len(envs) + 1, 1),
        Len(envs) + 1)

(* the machine a call on an existing container starts from *)
Machine ==
    [provs |-> provs, envs |-> envs, eips |-> eips, heap |-> heap, err |-> NoErr,
     report |-> <<>>, ret |-> 0, argv |-> <<>>, depth |-> 0, loaded |-> {}]

(* Environment.destroy *)
RECURSIVE destroyInstances(_, _, _)
destroyInstances(M, env, i) ==
    IF M.err # NoErr THEN M
    ELSE IF i > Len(M.envs[env].instances)
    THEN [M EXCEPT !.envs[env].instances = <<>>, !.envs[env].destroys = @ + 1]
    ELSE destroyInstances(
             executeProcessors(M, env, "ON_DESTROY", M.envs[env].instances[i], 1),
             env, i + 1)

-----------------------------------------------------------------------------
(* The state machine *)

Outcome(op, env, t, ret, err, report) ==
    [op |-> op, env |-> env, type |-> t, ret |-> ret, err |-> err, report |-> report]

EmptyRegistry == [provs |-> <<>>, providers |-> <<>>, cache |-> <<>>, err |-> NoErr]

(* the registry as the decorators of aspyx.di.di leave it *)
Imported(R) == provs = R.provs /\ providers = R.providers /\ cache = R.cache

(* no intercepted call is in progress *)
NoInvocation == [phase |-> "none"]

(* no ExceptionManager and no Scheduler exist *)
NoManager == [phase |-> "none"]
NoScheduler == [phase |-> "none"]

(* the state once aspyx.di.di is imported and the program's classes exist *)
InitWith(programs) ==
    /\ invocation = NoInvocation
    /\ manager = NoManager
    /\ scheduler = NoScheduler
    /\ prog \in Indices(programs)
    /\ pc = 0
    /\ Imported(DecorateAll(EmptyRegistry, InternalOrder, 1))
    /\ resolved = FALSE
    /\ envs = <<>>
    /\ eips = <<>>
    /\ heap = <<>>
    /\ threads = <<>>
    /\ nops = 0
    /\ returned = <<>>
    /\ last = Outcome("import", 0, NoneT, 0, NoErr, <<>>)

(* a decorator that raised ended the import of the program *)
Crashed == last.op = "register" /\ last.err # NoErr
Ready == pc = Len(Decl.order) /\ ~Crashed /\ threads = <<>>

(* the registry as a decorator leaves it, and its exception if it raised *)
Decorated(R, t) ==
    /\ provs' = R.provs
    /\ providers' = R.providers
    /\ cache' = R.cache
    /\ last' = Outcome("register", 0, t, 0, R.err, <<>>)

(* the next decorator of the program runs *)
Register ==
    /\ pc < Len(Decl.order)
    /\ ~Crashed
    /\ Decorated(Decorate([provs |-> provs, providers |-> providers, cache |-> cache,
                           err |-> NoErr], Decl.order[pc + 1]),
                 Decl.order[pc + 1].type)
    /\ pc' = pc + 1
    /\ UNCHANGED <<manager, scheduler, invocation, prog, resolved, envs, eips, heap, threads, nops, returned>>

(* a call leaves the objects as M has them; its outcome is kept, and what a *)
(* get() returned goes to the history, with the number of objects that were *)
(* constructed for it                                                        *)
Left(M, op, env, t) ==
    /\ provs' = M.provs
    /\ envs' = M.envs
    /\ eips' = M.eips
    /\ heap' = M.heap
    /\ last' = Outcome(op, env, t, IF op = "get" /\ M.err = NoErr THEN M.ret ELSE 0,
                       M.err, M.report)
    /\ returned' = IF op = "get" /\ M.err = NoErr
                   THEN Append(returned, [env |-> env, type |-> t, ret |-> M.ret,
                                          destroys |-> envs[env].destroys,
                                          made |-> Len(M.heap) - Len(heap)])
                   ELSE returned

(* the scope of a container, None for no container *)
ScopeOf(env) == IF env = 0 THEN NoneT ELSE envs[env].env

(* Environment(scope, parent) *)
Construct(scope, parent) ==
    /\ Ready
    /\ Len(envs) < MaxEnvs
    /\ <<scope, ScopeOf(parent)>> \in Decl.containers
    /\ IF parent = 0 THEN TRUE ELSE envs[parent].alive
    /\ Left(Environment_init(scope, parent), "Environment", Len(envs) + 1, scope)
    /\ resolved' = TRUE
    /\ UNCHANGED <<manager, scheduler, invocation, prog, pc, providers, cache, threads, nops>>

(* env.get(t) *)
Get(env, t) ==
    /\ Ready
    /\ nops < MaxOps
    /\ envs[env].alive
    /\ Left(Environment_get(Machine, env, t), "get", env, t)
    /\ nops' = nops + 1
    /\ UNCHANGED <<manager, scheduler, invocation, prog, pc, providers, cache, resolved, threads>>

(* env.destroy() *)
Destroy(env) ==
    /\ Ready
    /\ nops < MaxOps
    /\ envs[env].alive
    /\ Left(destroyInstances(Machine, env, 1), "destroy", env, NoneT)
    /\ nops' = nops + 1
    /\ UNCHANGED <<manager, scheduler, invocation, prog, pc, providers, cache, resolved, threads>>

(* a thread calls env.get(t) and runs up to the test of SingletonScope.get, *)
(* "if self.value is None"; a plain Scope has no test                        *)
ThreadGet(env, t) ==
    /\ pc = Len(Decl.order) /\ ~Crashed
    /\ Len(threads) < MaxThreads
    /\ envs[env].alive
    /\ LET known == DictHas(envs[env].providers, t)
           e == IF known THEN DictGet(envs[env].providers, t) ELSE 0
           at == IF ~known THEN "raised"
                 ELSE IF ScopeHolds(eips[e]) THEN "holds" ELSE "creating"
       IN  threads' = Append(threads, [env |-> env, type |-> t, eip |-> e, at |-> at,
                                       made |-> 0, ret |-> 0, err |-> NoErr])
    /\ UNCHANGED <<manager, scheduler, invocation, prog, pc, provs, providers, cache, resolved, envs, eips, heap, nops,
                   returned, last>>

(* the objects as the thread's create left them; the thread holds what it   *)
(* made                                                                      *)
Stored(M, th) ==
    /\ envs' = M.envs
    /\ eips' = M.eips
    /\ heap' = M.heap
    /\ threads' = [threads EXCEPT ![th] =
           IF M.err # NoErr THEN [@ EXCEPT !.at = "raised", !.err = M.err]
           ELSE IF eips[@.eip].singleton THEN [@ EXCEPT !.at = "holds", !.made = M.ret]
           ELSE [@ EXCEPT !.at = "returned", !.made = M.ret, !.ret = M.ret]]

(* the thread runs provider.create(environment, *argProvider()) and, in a   *)
(* SingletonScope, stores the result into self.value                         *)
ThreadCreate(th) ==
    /\ threads[th].at = "creating"
    /\ Stored(Scope_get(Machine, threads[th].eip, threads[th].env), th)
    /\ UNCHANGED <<manager, scheduler, invocation, prog, pc, provs, providers, cache, resolved, nops, returned, last>>

(* "return self.value" of SingletonScope.get *)
ThreadReturn(th) ==
    /\ threads[th].at = "holds"
    /\ threads' = [threads EXCEPT ![th].at = "returned",
                                  ![th].ret = eips[threads[th].eip].value]
    /\ UNCHANGED <<manager, scheduler, invocation, prog, pc, provs, providers, cache, resolved, envs, eips, heap, nops,
                   returned, last>>

Next ==
    \/ Register
    \/ \E scope \in Types, parent \in 0..Len(envs) : Construct(scope, parent)
    \/ \E env \in 1..Len(envs), t \in Decl.ask : Get(env, t)
    \/ \E env \in 1..Len(envs) : Destroy(env)

Init == InitWith(TestDiPrograms)
Spec == Init /\ [][Next]_vars

InitShared == InitWith(SharedPrograms)
SpecShared == InitShared /\ [][Next]_vars

(* containers built by one thread, then get() called by several at a time *)
NextThreads ==
    \/ Register
    \/ \E scope \in Types, parent \in 0..Len(envs) : Construct(scope, parent)
    \/ \E env \in 1..Len(envs), t \in Decl.ask : ThreadGet(env, t)
    \/ \E th \in 1..Len(threads) : ThreadCreate(th)
    \/ \E th \in 1..Len(threads) : ThreadReturn(th)

SpecThreads == Init /\ [][NextThreads]_vars

InitPrefix == InitWith(PrefixPrograms)
SpecPrefix == InitPrefix /\ [][Next]_vars

InitGraph == InitWith(GraphPrograms)
SpecGraph == InitGraph /\ [][Next]_vars

InitHierarchy == InitWith(HierarchyPrograms)
SpecHierarchy == InitHierarchy /\ [][Next]_vars

InitChild == InitWith(ChildPrograms)
SpecChild == InitChild /\ [][Next]_vars

InitMissing == InitWith(MissingPrograms)
SpecMissing == InitMissing /\ [][Next]_vars

InitSignature == InitWith(SignaturePrograms)
SpecSignature == InitSignature /\ [][Next]_vars

InitMarker == InitWith(MarkerPrograms)
SpecMarker == InitMarker /\ [][Next]_vars

InitImport == InitWith(ImportPrograms)
SpecImport == InitImport /\ [][Next]_vars

InitDiamond == InitWith(DiamondPrograms)
SpecDiamond == InitDiamond /\ [][Next]_vars

-----------------------------------------------------------------------------
(* The advice weaver (aspyx.di.aop): one intercepted call               *)

(* what an around-advice does with its continuation, and an error-advice    *)
(* with the exception                                                        *)
AroundKinds == {"pass", "args", "result", "short", "catch"}
ErrorKinds == {"observe", "translate", "suppress"}

(* the interception plan of a join point: the matching advice of each kind *)
(* in registration order, and whether the intercepted method returns or     *)
(* raises                                                                    *)
Plan(before, around, after, error, method) ==
    [before |-> before, around |-> around, after |-> after, error |-> error,
     method |-> method]

UpTo(S, n) == UNION {[1..k -> S] : k \in 0..n}

MaxAdvice == 2      \* advice of one kind matching one join point

Plans ==
    {Plan(b, ar, af, er, m) :
        b \in UpTo({"before"}, 1), ar \in UpTo(AroundKinds, MaxAdvice),
        af \in UpTo({"after"}, 1), er \in UpTo(ErrorKinds, MaxAdvice),
        m \in {"return", "raise"}}

(* the values of a call: the method says hello to its arguments, an advice  *)
(* adds its mark to the arguments or to the result, or returns its own      *)
Arguments == {<<"world">>, <<"you">>}
AdviceName(i) == <<"X", "Y", "Z", "W">>[i]
Hello(args) == <<"hello">> \o args
Exclaimed(args) == Append(args, "!")
Wrapped(i, result) == <<AdviceName(i)>> \o result
Own(i) == <<"advice", AdviceName(i)>>

(* Invocation: target method and plan, the arguments as they stand, the     *)
(* result and the exception slot, the exception on its way to the caller,   *)
(* the place in the chain, and the log                                       *)
Invocation(plan) ==
    [phase |-> "idle", plan |-> plan, i |-> 0, args |-> <<>>, result |-> <<>>,
     exception |-> NoneT, pending |-> NoneT, log |-> <<>>]

Entry(kind, id, args, value, exception) ==
    [kind |-> kind, id |-> id, args |-> args, value |-> value, exception |-> exception]

(* a chain that runs the after-advice whatever the outcome *)
CompletionAlwaysAfter(v) == "after"

(* what follows the outermost around-advice: the after-advice after normal  *)
(* completion, the error-advice when the call raised                         *)
Completion(v) == IF v.pending = NoneT THEN "after" ELSE "error"

(* the chain moves on when the advice of a kind is used up *)
RECURSIVE Settle(_)
Settle(v) ==
    CASE v.phase = "before" /\ v.i > Len(v.plan.before) ->
             Settle([v EXCEPT !.phase = "around", !.i = 1])
      [] v.phase = "around" /\ v.i > Len(v.plan.around) -> [v EXCEPT !.phase = "original"]
      [] v.phase = "leave" /\ v.i = 0 -> Settle([v EXCEPT !.phase = Completion(v), !.i = 1])
      [] v.phase = "after" /\ v.i > Len(v.plan.after) -> [v EXCEPT !.phase = "returned"]
      [] v.phase = "error" /\ v.i > Len(v.plan.error) ->
             [v EXCEPT !.phase = IF v.pending = NoneT THEN "returned" ELSE "raised"]
      [] OTHER -> v

Logged(v, e) == [v EXCEPT !.log = Append(@, e)]

(* a continuation that drops the arguments it is called with *)
proceedWithOld(v, args) == [v EXCEPT !.i = @ + 1]

(* a continuation that goes to the original method at once *)
proceedPastAll(v, args) == [v EXCEPT !.args = args, !.i = Len(v.plan.around) + 1]

(* invocation.proceed with new arguments: on to the next around-advice or   *)
(* the method                                                               *)
proceed(v, args) == [v EXCEPT !.args = args, !.i = @ + 1]

(* the caller calls the intercepted method *)
Invoke(args) ==
    /\ invocation.phase = "idle"
    /\ invocation' = Settle([invocation EXCEPT !.phase = "before", !.i = 1, !.args = args])
    /\ UNCHANGED <<manager, scheduler, prog, pc, provs, providers, cache, resolved, envs,
                   eips, heap, threads, nops, returned, last>>

RunBefore ==
    /\ invocation.phase = "before"
    /\ invocation' =
           Settle([Logged(invocation,
                          Entry("before", invocation.i, invocation.args, <<>>, NoneT))
                      EXCEPT !.i = @ + 1])
    /\ UNCHANGED <<manager, scheduler, prog, pc, provs, providers, cache, resolved, envs,
                   eips, heap, threads, nops, returned, last>>

(* an around-advice runs up to its continuation, or returns without it *)
EnterAround ==
    /\ invocation.phase = "around"
    /\ LET i == invocation.i
           kind == invocation.plan.around[i]
           passed == IF kind = "args" THEN Exclaimed(invocation.args) ELSE invocation.args
       IN  invocation' =
               IF kind = "short"
               THEN Settle([Logged(invocation,
                                   Entry("short", i, invocation.args, Own(i), NoneT))
                               EXCEPT !.phase = "leave", !.i = i - 1, !.result = Own(i)])
               ELSE Settle(proceed(Logged(invocation,
                                          Entry("pre", i, invocation.args, passed, NoneT)),
                                   passed))
    /\ UNCHANGED <<manager, scheduler, prog, pc, provs, providers, cache, resolved, envs,
                   eips, heap, threads, nops, returned, last>>

(* the original method runs on the arguments as they stand *)
Original ==
    /\ invocation.phase = "original"
    /\ LET v == Logged(invocation, Entry("call", 0, invocation.args, <<>>, NoneT))
       IN  invocation' =
               Settle([v EXCEPT !.phase = "leave", !.i = Len(v.plan.around),
                                !.result = IF v.plan.method = "return"
                                           THEN Hello(v.args) ELSE <<>>,
                                !.exception = IF v.plan.method = "return"
                                              THEN NoneT ELSE "ouch",
                                !.pending = IF v.plan.method = "return"
                                            THEN NoneT ELSE "ouch"])
    /\ UNCHANGED <<manager, scheduler, prog, pc, provs, providers, cache, resolved, envs,
                   eips, heap, threads, nops, returned, last>>

(* the continuation of an around-advice returned or raised: the advice      *)
(* returns a value, or lets the exception pass                               *)
LeaveAround ==
    /\ invocation.phase = "leave"
    /\ LET i == invocation.i
           kind == invocation.plan.around[i]
           raised == invocation.pending # NoneT
           value == IF raised THEN Own(i)
                    ELSE IF kind = "result" THEN Wrapped(i, invocation.result)
                    ELSE invocation.result
       IN  invocation' =
               IF raised /\ kind # "catch"
               THEN Settle([invocation EXCEPT !.i = i - 1])
               ELSE Settle([Logged(invocation, Entry("post", i, <<>>, value, NoneT))
                               EXCEPT !.i = i - 1, !.result = value, !.pending = NoneT])
    /\ UNCHANGED <<manager, scheduler, prog, pc, provs, providers, cache, resolved, envs,
                   eips, heap, threads, nops, returned, last>>

RunAfter ==
    /\ invocation.phase = "after"
    /\ invocation' =
           Settle([Logged(invocation, Entry("after", invocation.i, <<>>, <<>>, NoneT))
                      EXCEPT !.i = @ + 1])
    /\ UNCHANGED <<manager, scheduler, prog, pc, provs, providers, cache, resolved, envs,
                   eips, heap, threads, nops, returned, last>>

(* an error-advice finds the exception in the slot, and may replace or      *)
(* drop what goes on to the caller                                           *)
RunError ==
    /\ invocation.phase = "error"
    /\ LET i == invocation.i
           kind == invocation.plan.error[i]
       IN  invocation' =
               Settle([Logged(invocation,
                              Entry("error", i, <<>>, <<>>, invocation.exception))
                          EXCEPT !.i = i + 1,
                                 !.pending = CASE kind = "translate" -> "translated"
                                                 [] kind = "suppress" -> NoneT
                                                 [] OTHER -> @])
    /\ UNCHANGED <<manager, scheduler, prog, pc, provs, providers, cache, resolved, envs,
                   eips, heap, threads, nops, returned, last>>

NextAdvice ==
    \/ \E args \in Arguments : Invoke(args)
    \/ RunBefore
    \/ EnterAround
    \/ Original
    \/ LeaveAround
    \/ RunAfter
    \/ RunError

(* a container is not needed for the call: the registry stays as imported *)
InitAdvice ==
    /\ manager = NoManager
    /\ scheduler = NoScheduler
    /\ prog = 1
    /\ pc = 0
    /\ Imported(DecorateAll(EmptyRegistry, InternalOrder, 1))
    /\ resolved = FALSE
    /\ envs = <<>>
    /\ eips = <<>>
    /\ heap = <<>>
    /\ threads = <<>>
    /\ nops = 0
    /\ returned = <<>>
    /\ last = Outcome("import", 0, NoneT, 0, NoErr, <<>>)
    /\ invocation \in {Invocation(plan) : plan \in Plans}

SpecAdvice == InitAdvice /\ [][NextAdvice]_vars

-----------------------------------------------------------------------------
(* What the properties speak about *)

(* t was registered with singleton = True *)
SingletonType(t) == DictHas(providers, t) /\ provs[DictGet(providers, t)].singleton

(* a container and the containers it descends from *)
RECURSIVE Ancestors(_)
Ancestors(env) == IF env = 0 THEN {} ELSE {env} \cup Ancestors(envs[env].parent)

Gets == 1..Len(returned)
Objects == 1..Len(heap)

Range(q) == {q[i] : i \in 1..Len(q)}
Registered == Range(DictKeys(providers))

(* t is registered as a class, not made by a create-marked method *)
ClassType(t) == DictHas(providers, t) /\ provs[DictGet(providers, t)].kind = "class"

(* the parameter types of the constructor and of the inject-marked methods *)
CtorParams(t) ==
    IF DictHas(MethodsOf(t), "__init__") THEN DictGet(MethodsOf(t), "__init__").params
    ELSE <<>>
InjectParams(t) ==
    UNION {Range(m.v.params) : m \in {n \in Range(MethodsOf(t)) : has_decorator(n.v, "inject")}}

(* the dependency graph of the registered providers, from the declarations: *)
(* a class asks for its parameter types, a create-marked method for its     *)
(* host; a type asked for is served by its own provider, or by the one       *)
(* registered subclass it has                                                *)
Asks(t) ==
    IF ClassType(t) THEN Range(CtorParams(t)) \cup InjectParams(t)
    ELSE {provs[DictGet(providers, t)].host}
Serving(a) ==
    IF a \in Registered THEN {a}
    ELSE LET c == {u \in Registered : IsSubclass(u, a)}
         IN  IF Cardinality(c) = 1 THEN c ELSE {}
DependsOn(t) == UNION {Serving(a) : a \in Asks(t)}

RECURSIVE Reach(_, _)
Reach(S, n) == IF n = 0 THEN S ELSE Reach(S \cup UNION {DependsOn(u) : u \in S}, n - 1)
Below(t) == Reach(DependsOn(t), Cardinality(Registered))

Cyclic == \E t \in Registered : t \in Below(t)
Resolvable(t) ==
    \A u \in {t} \cup Below(t) : u \notin Below(u) /\ \A a \in Asks(u) : Serving(a) # {}

(* the exceptions only Providers.resolve() raises *)
ResolveErrors == {"cycle", "not registered", "no __init__"}

(* the marked methods of a type, and how often one ran on an object *)
Marked(t, marker) == {m.v.name : m \in {n \in Range(MethodsOf(t)) : has_decorator(n.v, marker)}}
Calls(o, name) == Cardinality({k \in 1..Len(heap[o].calls) : heap[o].calls[k].method = name})

-----------------------------------------------------------------------------
(* Singletons *)

ConstructorGetsContainerSingleton ==
    \A i \in Gets, j \in Gets :
        LET x == returned[i]
            y == returned[j]
        IN  x.env = y.env /\ ClassType(x.type) /\ SingletonType(y.type) =>
                \A k \in 1..Len(CtorParams(x.type)) :
                    CtorParams(x.type)[k] = y.type =>
                        k <= Len(heap[x.ret].args) /\ heap[x.ret].args[k] = y.ret

(* C5: of the threads that called get(T) for one singleton of one           *)
(* container, at most one ran the provider's create, and those that         *)
(* returned got the same instance                                            *)
SingletonConstructedOnce ==
    \A a \in 1..Len(threads), b \in 1..Len(threads) :
        LET x == threads[a]
            y == threads[b]
        IN  a # b /\ x.eip # 0 /\ x.eip = y.eip /\ eips[x.eip].singleton =>
                /\ ~(x.made # 0 /\ y.made # 0)
                /\ x.at = "returned" /\ y.at = "returned" => x.ret = y.ret

(* C10: a get(T) of a singleton type T made after a destroy() of the        *)
(* container returns the instance a get(T) before that destroy() returned,  *)
(* init-marked methods have run once on it, and no other object of its type *)
(* that the container made before the destroy() exists                      *)
SingletonSurvivesDestroy ==
    \A j \in Gets :
        LET y == returned[j]
        IN  SingletonType(y.type) /\ y.destroys > 0 =>
                /\ \A i \in 1..j :
                       LET x == returned[i]
                       IN  x.env = y.env /\ x.type = y.type /\ x.destroys < y.destroys
                               => x.ret = y.ret
                /\ \A m \in Marked(heap[y.ret].type, "on_init") : Calls(y.ret, m) = 1
                /\ \A o \in Objects :
                       /\ heap[o].type = heap[y.ret].type
                       /\ heap[o].env = heap[y.ret].env
                       /\ heap[o].born < y.destroys
                       => o = y.ret

(* a singleton was fetched before and after a destroy() of its container *)
SingletonFetchedAfterDestroy ==
    \E i \in Gets, j \in Gets :
        /\ i < j
        /\ SingletonType(returned[i].type)
        /\ returned[j].type = returned[i].type /\ returned[j].env = returned[i].env
        /\ returned[i].destroys < returned[j].destroys
        /\ Marked(returned[i].type, "on_init") # {}

-----------------------------------------------------------------------------
(* Resolution *)

(* C3: when the dependency graph has a cycle, the first Environment         *)
(* construction raises an InjectorException of the resolution pass, and no  *)
(* object has been constructed                                               *)
CycleRaisedByResolve ==
    last.op = "Environment" /\ last.env = 1 /\ Cyclic =>
        last.err \in ResolveErrors /\ heap = <<>>

(* C4: when the dependency graph has no cycle, no Environment construction  *)
(* ends with the cycle error of Providers.resolve()                          *)
AcyclicResolves ==
    last.op = "Environment" /\ ~Cyclic => last.err # "cycle"

-----------------------------------------------------------------------------
(* Types and subtypes *)

(* C6: get(T) of a registered concrete type T with a resolvable graph that  *)
(* the container has a provider for returns, and returns an object of        *)
(* runtime type T (of T or a subtype when a create-marked method made it)   *)
GetReturnsRequestedType ==
    /\ last.op = "get"
    /\ DictHas(providers, last.type)
    /\ ~Decl.classes[last.type].abstract
    /\ DictHas(envs[last.env].providers, last.type)
    /\ Resolvable(last.type)
    => /\ last.err = NoErr
       /\ IF ClassType(last.type) THEN heap[last.ret].type = last.type
          ELSE IsSubclass(heap[last.ret].type, last.type)

(* C7: with two registered concrete types C1 and C2 that both subclass a    *)
(* type I, the registrations of C1 and C2 and the container construction    *)
(* succeed, get(I) raises the ambiguity exception, get(C1) and get(C2)      *)
(* return                                                                    *)
AmbiguityOnlyAtRequest ==
    \A i \in Types, c1 \in Registered, c2 \in Registered :
        /\ c1 # c2 /\ i \notin {c1, c2}
        /\ ~Decl.classes[c1].abstract /\ ~Decl.classes[c2].abstract
        /\ IsSubclass(c1, i) /\ IsSubclass(c2, i)
        => /\ last.op = "register" /\ last.type \in {c1, c2} => last.err = NoErr
           /\ last.op = "Environment" => last.err = NoErr
           /\ last.op = "get" /\ last.type = i => last.err = "multiple candidates"
           /\ last.op = "get" /\ last.type \in {c1, c2} => last.err = NoErr

-----------------------------------------------------------------------------
(* Lifecycle *)

(* C8: on every object whose created() has returned each init-marked method *)
(* of its type has run exactly once, however many get() calls followed; on  *)
(* no object it has run twice; and what a get() returned, and what a        *)
(* singleton scope holds, is an object whose created() has returned         *)
InitOnce ==
    /\ \A o \in Objects : \A m \in Marked(heap[o].type, "on_init") :
           IF heap[o].done THEN Calls(o, m) = 1 ELSE Calls(o, m) <= 1
    /\ \A i \in Gets : heap[returned[i].ret].done
    /\ \A e \in 1..Len(eips) : eips[e].value # 0 => heap[eips[e].value].done

(* a singleton with an init-marked method was fetched twice *)
InitializedFetchedTwice ==
    \E i \in Gets, j \in Gets :
        /\ i < j
        /\ returned[i].ret = returned[j].ret
        /\ Marked(returned[i].type, "on_init") # {}
        /\ \A m \in Marked(returned[i].type, "on_init") : Calls(returned[i].ret, m) = 1

(* C9: a destroy-marked method of an object has run once if destroy() of    *)
(* the container that made it was called after the object was made, however *)
(* many times, and not at all otherwise                                      *)
DestroyOnce ==
    \A o \in Objects : \A m \in Marked(heap[o].type, "on_destroy") :
        Calls(o, m) = IF envs[heap[o].env].destroys > heap[o].born THEN 1 ELSE 0

(* destroy() was called twice on a container after it made an object with   *)
(* a destroy-marked method                                                   *)
DestroyedTwice ==
    \E o \in Objects :
        /\ Marked(heap[o].type, "on_destroy") # {}
        /\ envs[heap[o].env].destroys >= heap[o].born + 2
        /\ \A m \in Marked(heap[o].type, "on_destroy") : Calls(o, m) = 1

-----------------------------------------------------------------------------
(* Parent and child containers *)

(* the scopes a scope loads: itself and the transitive closure of imports *)
RECURSIVE ReachImports(_, _)
ReachImports(S, n) ==
    IF n = 0 THEN S
    ELSE ReachImports(S \cup UNION {Range(Decl.classes[s].imports) : s \in S}, n - 1)
ImportClosure(scope) == ReachImports({scope}, Cardinality(Types))

(* the types whose cache entry is declared in a module that starts with the *)
(* module of one of the scopes                                               *)
ScannedBy(scopes) ==
    {t \in Range(DictKeys(cache)) :
        \E s \in scopes : StartsWith(get_module(provs, DictGet(cache, t)),
                                     Decl.classes[s].module)}

(* the scopes loaded for a container and for the containers above it *)
RECURSIVE ScopesOf(_)
ScopesOf(env) ==
    ImportClosure(envs[env].env)
        \cup (IF envs[env].parent = 0 THEN {DIEnvironment} ELSE ScopesOf(envs[env].parent))
Visible(env) == ScannedBy(ScopesOf(env))

(* C11: a get(T) of a singleton type T on a child returns what get(T) on    *)
(* its parent returns, and no object of a singleton type of the parent's    *)
(* provider map is constructed for the child after the parent's scope holds *)
(* one                                                                       *)
ChildSharesParentSingleton ==
    /\ \A i \in Gets, j \in Gets :
           LET x == returned[i]
               y == returned[j]
           IN  envs[y.env].parent = x.env /\ x.type = y.type /\ SingletonType(x.type)
                   => x.ret = y.ret
    /\ \A o \in Objects :
           LET t == heap[o].type
               p == envs[heap[o].env].parent
           IN  p # 0 /\ SingletonType(t) /\ DictHas(envs[p].providers, t)
                   => LET v == eips[DictGet(envs[p].providers, t)].value
                      IN  ~(v # 0 /\ v < o)

(* C12: the provider map of a container stays as it was when its           *)
(* constructor returned, whatever children are built over it and asked, and *)
(* a get(T) of a type T outside the scopes of the container and of the      *)
(* containers above it raises the not-supported exception                    *)
ParentUnchangedByChild ==
    /\ \A e \in 1..Len(envs) : envs[e].alive => envs[e].providers = envs[e].built
    /\ last.op = "get" /\ last.type \notin Visible(last.env) => last.err = "not supported"

(* get(T) raised on a parent after a child that provides T returned it *)
HiddenAskedAfterChildGet ==
    /\ last.op = "get" /\ last.err = "not supported"
    /\ \E i \in Gets : returned[i].type = last.type
                          /\ envs[returned[i].env].parent = last.env

-----------------------------------------------------------------------------
(* Eager creation *)

(* the wrapper a container has for a type *)
WrapperOf(env, t) == eips[DictGet(envs[env].providers, t)]
EagerSingleton(w) == is_eager(provs, w.provider) /\ w.singleton

(* C13: in a container whose constructor has returned, the scope of every   *)
(* eager singleton provider of the provider map holds a value, and a get()  *)
(* of such a type constructs no object                                       *)
EagerCreatedAtConstruction ==
    /\ \A e \in 1..Len(envs) :
           envs[e].alive =>
               \A t \in Range(DictKeys(envs[e].providers)) :
                   EagerSingleton(WrapperOf(e, t)) => WrapperOf(e, t).value # 0
    /\ \A i \in Gets :
           EagerSingleton(WrapperOf(returned[i].env, returned[i].type))
               => returned[i].made = 0

(* the first get() of a run asked for an eager singleton, in a program that *)
(* has lazy singletons too                                                   *)
EagerFetchedFirst ==
    /\ Len(returned) >= 1
    /\ nops = 1
    /\ EagerSingleton(WrapperOf(returned[1].env, returned[1].type))
    /\ \E t \in Range(DictKeys(envs[returned[1].env].providers)) :
           ~is_eager(provs, WrapperOf(returned[1].env, t).provider)

-----------------------------------------------------------------------------
(* Scanning *)

-----------------------------------------------------------------------------
(* Injection *)

(* the inject-marked methods of a type, and the calls of a method logged on *)
(* an object                                                                 *)
InjectMethods(t) == {m.v : m \in {n \in Range(MethodsOf(t)) : has_decorator(n.v, "inject")}}
CallsOf(o, name) == {k \in 1..Len(heap[o].calls) : heap[o].calls[k].method = name}

(* C15: on every object whose created() has returned, each inject-marked    *)
(* method of its type was called once, with one argument per parameter,     *)
(* each an object of the parameter's type; for a singleton type it is the   *)
(* object the scope of the creating container holds and every get() of that *)
(* type on that container returned                                           *)
InjectGetsContainerInstances ==
    \A o \in Objects : heap[o].done =>
        \A m \in InjectMethods(heap[o].type) :
            /\ Cardinality(CallsOf(o, m.name)) = 1
            /\ \A c \in CallsOf(o, m.name) :
                   LET args == heap[o].calls[c].args
                   IN  /\ Len(args) = Len(m.params)
                       /\ \A k \in 1..Len(m.params) :
                              /\ IsSubclass(heap[args[k]].type, m.params[k])
                              /\ SingletonType(m.params[k]) =>
                                     /\ WrapperOf(heap[o].env, m.params[k]).value = args[k]
                                     /\ \A i \in Gets :
                                            /\ returned[i].env = heap[o].env
                                            /\ returned[i].type = m.params[k]
                                            => returned[i].ret = args[k]

(* an object with an inject-marked method was fetched, and after it the     *)
(* singleton one of the parameters asks for                                  *)
InjectedThenFetched ==
    \E i \in Gets, j \in Gets :
        /\ i < j
        /\ returned[i].env = returned[j].env
        /\ \E m \in InjectMethods(returned[i].type) :
               \E k \in 1..Len(m.params) :
                   m.params[k] = returned[j].type /\ SingletonType(returned[j].type)

-----------------------------------------------------------------------------
(* Missing providers *)

(* a registered class asks, in its constructor or in an inject-marked       *)
(* method, for a type that neither is registered nor has a registered       *)
(* subclass                                                                  *)
MissingParam ==
    \E t \in Registered :
        ClassType(t) /\ \E a \in Asks(t) : ~\E u \in Registered : IsSubclass(u, a)

(* C16: when a registered class asks for a type without a provider, the     *)
(* first Environment construction raises the not-registered exception and   *)
(* no object has been constructed; no get() raises it                        *)
MissingRaisedByResolve ==
    /\ last.op = "Environment" /\ last.env = 1 /\ MissingParam
           => last.err = "not registered" /\ heap = <<>>
    /\ last.op = "get" => last.err # "not registered"

-----------------------------------------------------------------------------
(* Advice around one call *)

(* the advice that ran, in order *)
Trail(v) == [k \in 1..Len(v.log) |-> <<v.log[k].kind, v.log[k].id>>]

Steps(kind, n) == [k \in 1..n |-> <<kind, k>>]

Backwards(s) == [k \in 1..Len(s) |-> s[Len(s) + 1 - k]]

(* every around-advice of the plan calls its continuation *)
AllProceed(plan) == \A k \in 1..Len(plan.around) : plan.around[k] # "short"

(* C17: a successful call through advice that all continue runs the         *)
(* before-advice, then the around-advice inwards in registration order,     *)
(* the original method, the around-advice outwards, and the after-advice,   *)
(* each once                                                                 *)
AdviceNestsInOrder ==
    invocation.phase = "returned" /\ invocation.plan.method = "return"
            /\ AllProceed(invocation.plan)
        => Trail(invocation) =
               Steps("before", Len(invocation.plan.before))
                   \o Steps("pre", Len(invocation.plan.around))
                   \o << <<"call", 0>> >>
                   \o Backwards(Steps("post", Len(invocation.plan.around)))
                   \o Steps("after", Len(invocation.plan.after))

(* a call through one before-, two around- and one after-advice returned *)
BeforeTwoAroundAfterReturned ==
    /\ invocation.phase = "returned"
    /\ invocation.plan.method = "return"
    /\ AllProceed(invocation.plan)
    /\ Len(invocation.plan.before) = 1
    /\ Len(invocation.plan.around) = 2
    /\ Len(invocation.plan.after) = 1
    /\ Len(invocation.log) = 7

(* the intercepted method ran and raised *)
MethodRaised(v) ==
    v.plan.method = "raise" /\ \E k \in 1..Len(v.log) : v.log[k].kind = "call"

(* an around-advice returned a value although its continuation raised *)
Caught(v) == \E k \in 1..Len(v.log) : v.log[k].kind = "post"

ErrorEntries(v) == SelectSeq(v.log, LAMBDA e : e.kind = "error")

OutermostReturned(v, k) == v.log[k].kind \in {"post", "short"} /\ v.log[k].id = 1

(* C19: what an around-advice passes to its continuation is what the next   *)
(* around-advice or the original method is called with, and the value the   *)
(* outermost around-advice returns is the result of the call; the advice    *)
(* that adds "!" to the arguments makes the method greet them with it       *)
ContinuationArgsAndResult ==
    /\ \A k \in 1..Len(invocation.log) - 1 :
           invocation.log[k].kind = "pre"
               => /\ invocation.log[k + 1].kind \in {"pre", "short", "call"}
                  /\ invocation.log[k + 1].args = invocation.log[k].value
    /\ invocation.phase = "returned"
           => \A k \in 1..Len(invocation.log) :
                  OutermostReturned(invocation, k)
                      => invocation.result = invocation.log[k].value
    /\ invocation.phase = "returned" /\ invocation.plan.method = "return"
               /\ invocation.plan.around = <<"args">>
           => \E args \in Arguments : invocation.result = Hello(Exclaimed(args))

(* a call returned through two around-advice, the outer one having replaced *)
(* the arguments and the inner one the result                                *)
ReplacedArgsAndResultReturned ==
    /\ invocation.phase = "returned"
    /\ invocation.plan.around = <<"args", "result">>
    /\ invocation.plan.method = "return"
    /\ \E args \in Arguments : invocation.result = Wrapped(2, Hello(Exclaimed(args)))

-----------------------------------------------------------------------------
(* The cycle report *)

(* C20: the path of a cycle report starts at a registered provider, every   *)
(* name is followed by one of its dependencies, and the last name is a      *)
(* name that stands earlier in the path                                      *)
CycleReportIsPath ==
    last.err = "cycle"
        => /\ Len(last.report) >= 2
           /\ last.report[1] \in Registered
           /\ \A k \in 1..Len(last.report) - 1 :
                  last.report[k + 1] \in DependsOn(last.report[k])
           /\ \E j \in 1..Len(last.report) - 1 :
                  last.report[j] = last.report[Len(last.report)]

-----------------------------------------------------------------------------
(* Duplicate registration *)

(* two providers that produce exactly the same type have been registered *)
SameTypeTwice ==
    \E i, j \in 1..Len(provs) : i < j /\ provs[i].type = provs[j].type

(* C21: a registration raises the already-registered exception exactly when *)
(* a provider of exactly the same type was registered before it              *)
AlreadyRegisteredIffSameType ==
    last.op = "register" => (last.err = "already registered" <=> SameTypeTwice)

-----------------------------------------------------------------------------
(* Constructor arguments *)

(* C22: an object of a registered class was constructed with one argument   *)
(* per constructor parameter, each an object of the parameter's type that   *)
(* the same container or one it descends from holds, and no constructor     *)
(* call fails for its arguments                                              *)
ConstructorGetsEveryParameter ==
    /\ last.err # "TypeError"
    /\ \A o \in Objects :
           ClassType(heap[o].type) =>
               /\ Len(heap[o].args) = Len(CtorParams(heap[o].type))
               /\ \A k \in 1..Len(heap[o].args) :
                      /\ heap[o].args[k] \in Objects
                      /\ IsSubclass(heap[heap[o].args[k]].type, CtorParams(heap[o].type)[k])
                      /\ heap[heap[o].args[k]].env \in Ancestors(heap[o].env)

-----------------------------------------------------------------------------
(* Handlers and the per-type cache *)

(* the handlers of a marker that were registered, before object o was made, *)
(* with a processor of the container of o: LifecycleCallable objects,       *)
(* registered by their constructor with the processor it is given           *)
HandlersBefore(marker, o) ==
    {h \in Objects :
        /\ Decl.classes[heap[h].type].handles = marker
        /\ h < o
        /\ heap[h].args[1] \in Range(envs[heap[o].env].lifecycleProcessors)}

(* the phase of a marker has come for object o *)
PhaseCame(marker, o) ==
    LifecycleOf(marker) = "ON_INIT" \/ envs[heap[o].env].destroys > heap[o].born

(* C23: on every object whose created() has returned, the methods that      *)
(* have run are exactly those carrying a marker whose phase has come and    *)
(* whose handler was registered with the container's processor before the  *)
(* object was constructed                                                    *)
MarkedMethodsFollowHandlerTable ==
    \A o \in Objects :
        heap[o].done =>
            \A m \in Range(MethodsOf(heap[o].type)) :
                (\E k \in 1..Len(m.v.marks) :
                     HandlersBefore(m.v.marks[k], o) # {} /\ PhaseCame(m.v.marks[k], o))
                    <=> CallsOf(o, m.v.name) # {}

-----------------------------------------------------------------------------
(* Missing imports *)

(* a type the container sees has a provider with a dependency the          *)
(* container does not see                                                    *)
DependencyUnseen(env) ==
    \E t \in Visible(env) :
        LET e == DictGet(cache, t)
        IN  ~e.amb /\ \E k \in 1..Len(provs[e.pid].dependencies) :
                          provs[e.pid].dependencies[k] \notin Visible(env)

(* C24: an Environment construction raises the missing-import exception     *)
(* only if, among the types of its parents and of the whole import closure  *)
(* of its scope, one has a dependency that is not among them                 *)
MissingImportOnlyIfUnseen ==
    last.op = "Environment" /\ last.err = "missing import" => DependencyUnseen(last.env)

-----------------------------------------------------------------------------
(* Injection before initialisation *)

(* C25: on no object an init-marked method has run before an inject-marked  *)
(* or inject_environment-marked method of it                                 *)
InjectionBeforeInit ==
    \A o \in Objects :
        \A i, j \in 1..Len(heap[o].calls) :
            i < j /\ heap[o].calls[i].method \in Marked(heap[o].type, "on_init")
                => heap[o].calls[j].method
                       \notin Marked(heap[o].type, "inject")
                                  \cup Marked(heap[o].type, "inject_environment")

-----------------------------------------------------------------------------
(* A failed resolution pass *)

(* the exceptions the container raises as InjectorException *)
InjectorErrors ==
    {"cycle", "not registered", "no __init__", "missing import", "not supported",
     "multiple candidates", "not an environment class", "already registered"}

(* the resolution pass over the providers as registration left them raises *)
PassRaises ==
    resolveAll([provs |-> [i \in 1..Len(provs) |->
                              [provs[i] EXCEPT !.depsNone = TRUE, !.dependencies = <<>>,
                                               !.params = 0]],
                ctx |-> <<>>, err |-> NoErr, report |-> <<>>], 1).err # NoErr

(* C26: when the resolution pass raises, every Environment construction     *)
(* after the first raises an InjectorException too, and no object is ever   *)
(* constructed                                                               *)
FailedResolutionStaysFailed ==
    PassRaises =>
        /\ heap = <<>>
        /\ last.op = "Environment" => last.err \in InjectorErrors

-----------------------------------------------------------------------------
(* A rejected registration *)

(* the provider table or the lookup cache holds provider pid *)
Listed(pid) ==
    \/ \E i \in 1..Len(providers) : providers[i].v = pid
    \/ \E i \in 1..Len(cache) :
           IF cache[i].v.amb THEN pid \in Range(cache[i].v.list) ELSE cache[i].v.pid = pid

(* C27: after a registration that raised the already-registered exception   *)
(* neither the provider table nor the lookup cache holds the provider that  *)
(* was rejected: both are as they were before the call                       *)
RejectedProviderLeavesNoTrace ==
    last.op = "register" /\ last.err = "already registered" => ~Listed(Len(provs))

-----------------------------------------------------------------------------
(* Ambiguous cache entries *)

(* C28: an ambiguous entry of the lookup cache lists at least two           *)
(* providers, each once, and each registered for a subclass of the type of  *)
(* the entry                                                                 *)
AmbiguousListsDistinctProviders ==
    \A i \in 1..Len(cache) :
        cache[i].v.amb =>
            /\ Cardinality(Range(cache[i].v.list)) >= 2
            /\ Cardinality(Range(cache[i].v.list)) = Len(cache[i].v.list)
            /\ \A pid \in Range(cache[i].v.list) :
                   /\ DictHas(providers, provs[pid].type)
                   /\ DictGet(providers, provs[pid].type) = pid
                   /\ IsSubclass(provs[pid].type, cache[i].k)

-----------------------------------------------------------------------------
(* The exception manager (aspyx.exception): one handle() call *)

MaxHandlers == 3    \* @handle methods of the program
MaxHandled == 2     \* handle() calls in one run

(* the variables of the container, which the exception manager leaves alone *)
container ==
    <<prog, pc, provs, providers, cache, resolved, envs, eips, heap, threads, nops,
      returned, last>>

(* the exception classes of the program, each with its base class *)
ExceptionBase ==
    [Leaf |-> "Mid", Mid |-> "Base", Base |-> "Exception", Other |-> "Exception",
     Exception |-> "BaseException", BaseException |-> "object", object |-> NoneT]

(* clazz.mro() with single inheritance *)
RECURSIVE mro(_)
mro(clazz) == IF clazz = NoneT THEN <<>> ELSE <<clazz>> \o mro(ExceptionBase[clazz])

(* the exceptions a program raises, and the parameter types of its @handle  *)
(* methods; a method either calls ExceptionManager.proceed() or returns     *)
Raised == {"Leaf", "Mid", "Other"}
HandledTypes == {"Leaf", "Mid", "Base", "Other"}
HandleMethods == [type : HandledTypes, does : {"proceed", "return"}]

(* Chain(handler): next is None *)
Chain(handler) == [handler |-> handler, next |-> 0]

(* the Chain objects compute_handlers makes for the classes of the mro that *)
(* have a handler: the first Handler of self.handler with that type         *)
RECURSIVE ChainsOf(_, _)
ChainsOf(handler, types) ==
    IF types = <<>> THEN <<>>
    ELSE LET found == {i \in 1..Len(handler) : handler[i].type = Head(types)}
         IN  (IF found = {} THEN <<>>
              ELSE <<Chain(CHOOSE i \in found : \A j \in found : i <= j)>>)
                 \o ChainsOf(handler, Tail(types))

(* "for i in range(0, len(chain) - 2): chain[i].next = chain[i + 1]": the   *)
(* result is the list of Chain objects, whose first is what the code        *)
(* returns, and <<>> where it returns None                                  *)
compute_handlers(handler, clazz) ==
    LET chain == ChainsOf(handler, mro(clazz))
    IN  [i \in 1..Len(chain) |->
            IF i - 1 \in 0..(Len(chain) - 3)
            THEN [chain[i] EXCEPT !.next = i + 1] ELSE chain[i]]

(* get_handlers: the cached chain, computed where the cache has none *)
get_handlers(m, clazz) ==
    IF DictHas(m.cache, clazz) /\ DictGet(m.cache, clazz) # <<>>
    THEN DictGet(m.cache, clazz)
    ELSE compute_handlers(m.handler, clazz)

(* ExceptionManager.__init__, with the @handle methods the program declares *)
ExceptionManager(methods) ==
    [phase |-> "new", declared |-> methods, handler |-> <<>>, cache |-> <<>>,
     exception |-> NoneT, chain |-> <<>>, current |-> 0, handled |-> 0, log |-> <<>>]

(* setup(): one Handler per @handle method of the handler classes *)
Setup ==
    /\ manager.phase = "new"
    /\ manager' = [manager EXCEPT !.phase = "ready",
                                  !.handler = manager.declared]
    /\ UNCHANGED <<container, invocation, scheduler>>

(* handle(exception) up to the call of the first handler of the chain *)
Handle(exception) ==
    /\ manager.phase = "ready"
    /\ manager.handled < MaxHandled
    /\ LET chain == get_handlers(manager, exception)
       IN  manager' =
               [manager EXCEPT !.cache = DictPut(@, exception, chain),
                               !.exception = exception,
                               !.chain = chain,
                               !.current = IF chain = <<>> THEN 0 ELSE 1,
                               !.phase = IF chain = <<>> THEN "ready" ELSE "handling",
                               !.handled = @ + 1,
                               !.log = <<>>]
    /\ UNCHANGED <<container, invocation, scheduler>>

(* ExceptionManager.proceed(): on to the next Chain of the invocation *)
Proceeded(m) == [m EXCEPT !.current = m.chain[m.current].next]

(* the handler of the current Chain runs: it returns, or it calls proceed() *)
(* and with it the next handler, where the Chain has one                    *)
RunHandler ==
    /\ manager.phase = "handling"
    /\ LET h == manager.handler[manager.chain[manager.current].handler]
           m == [manager EXCEPT !.log = Append(@, h.type)]
       IN  manager' =
               IF h.does = "proceed"
               THEN IF Proceeded(m).current # 0
                    THEN Proceeded(m)
                    ELSE [Proceeded(m) EXCEPT !.phase = "handled"]
               ELSE [m EXCEPT !.phase = "handled"]
    /\ UNCHANGED <<container, invocation, scheduler>>

(* the handlers returned: "finally: self.invocation.clear()" *)
Clear ==
    /\ manager.phase = "handled"
    /\ manager' = [manager EXCEPT !.phase = "ready", !.current = 0, !.chain = <<>>]
    /\ UNCHANGED <<container, invocation, scheduler>>

NextException ==
    \/ Setup
    \/ \E exception \in Raised : Handle(exception)
    \/ RunHandler
    \/ Clear

InitException ==
    /\ invocation = NoInvocation
    /\ scheduler = NoScheduler
    /\ prog = 1
    /\ pc = 0
    /\ Imported(DecorateAll(EmptyRegistry, InternalOrder, 1))
    /\ resolved = FALSE
    /\ envs = <<>>
    /\ eips = <<>>
    /\ heap = <<>>
    /\ threads = <<>>
    /\ nops = 0
    /\ returned = <<>>
    /\ last = Outcome("import", 0, NoneT, 0, NoErr, <<>>)
    /\ manager \in {ExceptionManager(methods) :
                       methods \in UNION {[1..n -> HandleMethods] : n \in 0..MaxHandlers}}

SpecException == InitException /\ [][NextException]_vars

(* the classes of the mro of the handled exception that have a handler,     *)
(* most specific first                                                       *)
HandledClasses ==
    SelectSeq(mro(manager.exception),
              LAMBDA t : \E i \in 1..Len(manager.handler) : manager.handler[i].type = t)

(* the handler the manager picks for each of these classes calls proceed()  *)
EveryHandlerProceeds ==
    \A n \in 1..Len(HandledClasses) :
        LET found == {i \in 1..Len(manager.handler) :
                          manager.handler[i].type = HandledClasses[n]}
        IN  manager.handler[CHOOSE i \in found : \A j \in found : i <= j].does = "proceed"

(* C29: once handle() returned, with handlers for k >= 2 classes of the mro *)
(* of the exception and every one of them calling proceed(), all k handlers *)
(* ran, each once, from the most specific class to the most general         *)
AllHandlersRunInMroOrder ==
    manager.phase = "ready" /\ manager.handled > 0 /\ Len(HandledClasses) >= 2
            /\ EveryHandlerProceeds
        => manager.log = HandledClasses

-----------------------------------------------------------------------------
(* The job scheduler (aspyx_job): scheduled methods and their groups *)

MaxJobs == 3        \* @scheduled methods of the program
MaxFirings == 4     \* trigger firings in one run

(* @scheduled(trigger, group, max): the parameters kept with the function;  *)
(* a function without a group has neither "group" nor "max"                 *)
scheduled(group, max) == [group |-> group, max |-> max]
Groups == {"g", "h"}
ScheduledFunctions ==
    {scheduled(NoneT, 0)} \cup {scheduled(group, max) : group \in Groups, max \in 1..2}

(* Scheduler.__init__, with Scheduler.scheduled_functions as the decorators *)
(* of the program left it; every job waits for its trigger                   *)
Scheduler(functions) ==
    [phase |-> "new", scheduled_functions |-> functions, group_semaphores |-> <<>>,
     at |-> [j \in 1..Len(functions) |-> "idle"], firings |-> 0]

(* get_semaphore_for_group: Semaphore(max_concurrent) for a group that has  *)
(* none yet; a semaphore is the value of its counter                         *)
get_semaphore_for_group(semaphores, group, max_concurrent) ==
    IF DictHas(semaphores, group) THEN semaphores
    ELSE DictPut(semaphores, group, max_concurrent)

(* register(): the semaphores of the groups, function by function *)
RECURSIVE registerJobs(_, _, _)
registerJobs(functions, j, semaphores) ==
    IF j > Len(functions) THEN semaphores
    ELSE registerJobs(functions, j + 1,
                      IF functions[j].group # NoneT
                      THEN get_semaphore_for_group(semaphores, functions[j].group,
                                                   functions[j].max)
                      ELSE semaphores)

(* Semaphore.acquire(blocking=False): takes a permit where one is left, and *)
(* returns at once where none is                                             *)
acquire(value) == IF value > 0 THEN value - 1 ELSE value

(* Semaphore.release() *)
release(value) == value + 1

(* on_init(): register(), then the background scheduler starts *)
OnInit ==
    /\ scheduler.phase = "new"
    /\ scheduler' =
           [scheduler EXCEPT !.phase = "started",
                             !.group_semaphores =
                                 registerJobs(scheduler.scheduled_functions, 1, <<>>)]
    /\ UNCHANGED <<container, invocation, manager>>

(* the trigger of job j fires and a worker thread takes its wrapper; the    *)
(* job is added without max_instances, so one instance of it runs at a time *)
Fire(j) ==
    /\ scheduler.phase = "started"
    /\ scheduler.at[j] = "idle"
    /\ scheduler.firings < MaxFirings
    /\ scheduler' = [scheduler EXCEPT !.at[j] = "acquire", !.firings = @ + 1]
    /\ UNCHANGED <<container, invocation, manager>>

(* wrapper(): "if semaphore is not None: semaphore.acquire(blocking=False)" *)
Acquire(j) ==
    /\ scheduler.at[j] = "acquire"
    /\ LET group == scheduler.scheduled_functions[j].group
       IN  scheduler' =
               IF group = NoneT THEN [scheduler EXCEPT !.at[j] = "get"]
               ELSE [scheduler EXCEPT
                        !.at[j] = "get",
                        !.group_semaphores =
                            DictPut(@, group, acquire(DictGet(@, group)))]
    /\ UNCHANGED <<container, invocation, manager>>

(* wrapper(): the instance is fetched and the body of the job begins *)
Begin(j) ==
    /\ scheduler.at[j] = "get"
    /\ scheduler' = [scheduler EXCEPT !.at[j] = "body"]
    /\ UNCHANGED <<container, invocation, manager>>

(* the body of the job returns or raises; the wrapper goes on to "finally" *)
Finish(j) ==
    /\ scheduler.at[j] = "body"
    /\ scheduler' = [scheduler EXCEPT !.at[j] = "release"]
    /\ UNCHANGED <<container, invocation, manager>>

(* wrapper(): "finally: if semaphore is not None: semaphore.release()" *)
Release(j) ==
    /\ scheduler.at[j] = "release"
    /\ LET group == scheduler.scheduled_functions[j].group
       IN  scheduler' =
               IF group = NoneT THEN [scheduler EXCEPT !.at[j] = "idle"]
               ELSE [scheduler EXCEPT
                        !.at[j] = "idle",
                        !.group_semaphores =
                            DictPut(@, group, release(DictGet(@, group)))]
    /\ UNCHANGED <<container, invocation, manager>>

NextJob ==
    \/ OnInit
    \/ \E j \in 1..Len(scheduler.scheduled_functions) : Fire(j)
    \/ \E j \in 1..Len(scheduler.scheduled_functions) : Acquire(j)
    \/ \E j \in 1..Len(scheduler.scheduled_functions) : Begin(j)
    \/ \E j \in 1..Len(scheduler.scheduled_functions) : Finish(j)
    \/ \E j \in 1..Len(scheduler.scheduled_functions) : Release(j)

InitJob ==
    /\ invocation = NoInvocation
    /\ manager = NoManager
    /\ prog = 1
    /\ pc = 0
    /\ Imported(DecorateAll(EmptyRegistry, InternalOrder, 1))
    /\ resolved = FALSE
    /\ envs = <<>>
    /\ eips = <<>>
    /\ heap = <<>>
    /\ threads = <<>>
    /\ nops = 0
    /\ returned = <<>>
    /\ last = Outcome("import", 0, NoneT, 0, NoErr, <<>>)
    /\ scheduler \in {Scheduler(functions) :
                         functions \in UNION {[1..n -> ScheduledFunctions] :
                                                  n \in 1..MaxJobs}}

SpecJob == InitJob /\ [][NextJob]_vars

(* the jobs of a group, and those of them whose body is executing *)
JobsOf(group) ==
    {j \in 1..Len(scheduler.scheduled_functions) :
         scheduler.scheduled_functions[j].group = group}
Executing(group) == {j \in JobsOf(group) : scheduler.at[j] = "body"}

(* every job of the group declares max = k *)
DeclaredMax(group, k) ==
    JobsOf(group) # {} /\ \A j \in JobsOf(group) : scheduler.scheduled_functions[j].max = k

(* C30: of a group whose jobs are declared with max = k never more than k   *)
(* bodies execute at the same time                                           *)
GroupNeverExceedsMax ==
    scheduler.phase = "started" =>
        \A group \in Groups, k \in 1..2 :
            DeclaredMax(group, k) => Cardinality(Executing(group)) <= k

====
